---- MODULE Spec2Model ----
(***************************************************************************)
(* go-argo-lite: a pull-based continuous-delivery agent.                   *)
(*                                                                         *)
(* Twelve specifications over one set of variables:                        *)
(*   Spec      the process: main/Worker.Start, the HTTP handler of         *)
(*             POST /sync-targets, the encrypted catalog file, the Worker  *)
(*             registry and the life cycle of the supervisor goroutines;   *)
(*   SpecStart the process at startup, on longer catalogs, without POSTs;  *)
(*   SpecPoll  one supervisor's reconciliation loop (GitPoller.Poll and    *)
(*             the select loop of Worker.manageSyncTarget);                *)
(*   SpecApply KubeHandler.ApplyManifestFile on bounded file contents;     *)
(*   SpecFiles GitPoller.GetManifestFiles on bounded directory trees;      *)
(*   SpecCatalog LoadSyncTargets and SaveSyncTarget called one at a time;  *)
(*   SpecRoute the request multiplexer in front of the handlers;           *)
(*   SpecLife  the supervisors of one target id from AddSyncTarget to the  *)
(*             return of manageSyncTarget, SpecLifeFair with fairness;     *)
(*   SpecMulti the supervisors of several targets, the callers of          *)
(*             AddSyncTarget and the registry lock;                        *)
(*   SpecRun   SpecLife's process with no stop signal from outside;        *)
(*   SpecNamespace SpecApply on files of namespaced and cluster-scoped     *)
(*             objects that declare a namespace or none.                   *)
(* The variables a specification does not use stay at their idle value.    *)
(***************************************************************************)
EXTENDS Integers, Sequences, FiniteSets, TLC

VARIABLES
    \* ---- Spec: the process
    mainpc,          \* position of main(): "start", "adding", "serving"
    startTargets,    \* Worker.Start: the list LoadSyncTargets returned
    startIdx,        \* Worker.Start: index of the next target of the range loop
    startLoaded,     \* Worker.Start: LoadSyncTargets returned without error
    catalog,         \* the decrypted content of the catalog file (a list of SyncTarget)
    fileCorrupt,     \* the catalog file is non-empty and does not decrypt/decode
    managedTargets,  \* Worker.managedTargets: SyncTarget.ID -> index of its *ManagedSyncTarget
    sup,             \* one record per ManagedSyncTarget ever made: its Target and its goroutine's position
    posts,           \* the handler goroutines of POST /sync-targets
    issued,          \* number of ids uuid.NewString has produced
    lastAdd,         \* the last AddSyncTarget call: its target id and its result
    \* ---- SpecPoll: one supervisor after initialization
    ppc,             \* position of manageSyncTarget
    lastCommitHash,  \* GitPoller.lastCommitHash
    remote,          \* the commit at the tip of the tracked branch on the remote
    head,            \* the commit HEAD of the local worktree
    pfiles,          \* manifestFiles of the apply pass in progress
    pidx,            \* index of the next file of the apply pass
    ticks,           \* ticks consumed so far
    pushes,          \* pushes made to the remote so far
    detections,      \* ticks that observed a hash different from the recorded one
    tickPasses,      \* apply passes entered on a tick
    tick,            \* what the last tick did
    stop,            \* the stop signal: "no", "fired", "observed"
    late,            \* what the supervisor began after the stop signal fired
    worktree,        \* the directory repoPath: "absent", "present", "leftover"
    unlisted,        \* the recorded hash whose manifest files could not be listed
    applied,         \* the last apply pass entered: its commit, its files, its failures
    \* ---- SpecApply: ApplyManifestFile
    content,         \* the manifest file's bytes, as atoms
    cluster,         \* the cluster's objects
    napplied,        \* ApplyManifestFile calls made so far
    ret,             \* what the last call did and returned
    env,             \* how the file system and the cluster answered the last call
    prev,            \* the cluster and the return value after the call before the last
    \* ---- SpecFiles: GetManifestFiles
    tree,            \* the worktree: path -> kind of entry
    gmf,             \* what GetManifestFiles returned
    \* ---- SpecCatalog: EncryptedFileStorage called alone
    store,           \* the catalog file: what it is and the list it holds
    lastOp,          \* the last call on the storage: its argument, the file before, its result
    \* ---- SpecRoute: the request multiplexer of the HTTP server
    requests,        \* requests served so far
    resp,            \* the last request, the handler it was routed to, and the answer
    \* ---- SpecMulti: the supervisors of several targets and the registry lock
    mu,              \* Worker.mu: who holds it
    callers,         \* the goroutines that call AddSyncTarget
    hashOf,          \* lastCommitHash of each supervisor's GitPoller
    dirs             \* the directories under baseRepoPath: path -> branch checked out

sysVars   == <<mainpc, startTargets, startIdx, startLoaded, catalog, fileCorrupt,
               managedTargets, sup, posts, issued, lastAdd>>
pollVars  == <<ppc, lastCommitHash, remote, head, pfiles, pidx, ticks, pushes,
               detections, tickPasses, tick, stop, late, worktree, unlisted, applied>>
applyVars == <<content, cluster, napplied, ret, env, prev>>
fileVars  == <<tree, gmf>>
catVars   == <<store, lastOp>>
routeVars == <<requests, resp>>
multiVars == <<mu, callers, hashOf, dirs>>
vars      == <<sysVars, pollVars, applyVars, fileVars, catVars, routeVars, multiVars>>

(***************************************************************************)
(* Bounds                                                                  *)
(***************************************************************************)
MaxCatalog   == 3   \* SpecStart: entries of the catalog file at process start
MaxStored    == 1   \* Spec: entries of the catalog file at process start
NumStoredIds == 2   \* distinct ids the catalog file may hold at process start
MaxPosts     == 2   \* Spec: POST /sync-targets requests served by the process

(***************************************************************************)
(* interfaces.SyncTarget.  GitCredentials is never read and is left out.   *)
(* An ID is a positive number; 0 is the zero value "" of a decoded body.   *)
(***************************************************************************)
SyncTarget(id, url, branch, kube, poll, path) ==
    [ID |-> id, RepoURL |-> url, RepoBranch |-> branch, KubeConfigContent |-> kube,
     PollIntervalSeconds |-> poll, ManifestPath |-> path]

\* The poll interval of the record stored under each id: the catalog file may
\* hold any integer, LoadSyncTargets checks none.
StoredPoll(id) ==
    CASE id = 2 -> 0
      [] id = 3 -> -5
      [] OTHER  -> 30

\* A record found in the catalog file at process start.
StoredTarget(id) == SyncTarget(id, "url", "main", "kubeconfig", StoredPoll(id), "k8s")

StoredIds == 1..NumStoredIds

RECURSIVE SeqsUpTo(_, _)
SeqsUpTo(S, n) ==
    IF n = 0 THEN {<<>>}
    ELSE LET shorter == SeqsUpTo(S, n - 1)
         IN  shorter \cup {Append(s, x) : s \in {t \in shorter : Len(t) = n - 1}, x \in S}

\* The catalog files a process may start on: LoadSyncTargets decodes any JSON
\* array and checks no uniqueness of ids.
InitialCatalogs(n) == SeqsUpTo({StoredTarget(id) : id \in StoredIds}, n)

\* The request bodies of POST /sync-targets; NotJSON stands for a body that
\* json.Decode rejects.
NoTarget == SyncTarget(0, "", "", "", 0, "")
NotJSON  == SyncTarget(0, "{", "", "", 0, "")

Bodies ==
    { NotJSON,
      SyncTarget(0, "url", "main", "kubeconfig", 60, "k8s"),
      SyncTarget(0, "url", "main", "kubeconfig", 0, "k8s"),
      SyncTarget(0, "", "main", "kubeconfig", 30, "k8s"),
      SyncTarget(0, "url", "", "kubeconfig", 30, "k8s"),
      SyncTarget(0, "url", "main", "", 30, "k8s"),
      SyncTarget(0, "url", "main", "kubeconfig", 30, "") }

DefaultPollInterval == 60

(***************************************************************************)
(* The catalog: EncryptedFileStorage                                       *)
(***************************************************************************)
\* LoadSyncTargets: the list, or an error and a nil list.
LoadSyncTargets(file, corrupt) ==
    IF corrupt THEN [err |-> TRUE, targets |-> <<>>]
    ELSE [err |-> FALSE, targets |-> file]

\* The upsert of SaveSyncTarget: replace the first entry with the id, else append.
RECURSIVE IndexOfID(_, _, _)
IndexOfID(targets, id, i) ==
    IF i > Len(targets) THEN 0
    ELSE IF targets[i].ID = id THEN i
    ELSE IndexOfID(targets, id, i + 1)

\* A save that always appends.
UpsertAppend(targets, target) == Append(targets, target)
Upsert(targets, target) ==
    LET i == IndexOfID(targets, target.ID, 1)
    IN  IF i > 0 THEN [targets EXCEPT ![i] = target] ELSE Append(targets, target)

\* What SaveSyncTarget goes on with after its LoadSyncTargets: a load error is
\* only logged when it is not a not-exist error and the list is empty, which
\* is the case of every error LoadSyncTargets returns.
SaveLoadedList(loaded) ==
    IF loaded.err /\ Len(loaded.targets) # 0
    THEN [fail |-> TRUE, targets |-> <<>>]
    ELSE [fail |-> FALSE, targets |-> loaded.targets]

CatalogIds == IF fileCorrupt THEN {} ELSE {catalog[i].ID : i \in 1..Len(catalog)}

(***************************************************************************)
(* The registry: Worker                                                    *)
(***************************************************************************)
Without(f, k) == [x \in DOMAIN f \ {k} |-> f[x]]
With(f, k, v) == [x \in DOMAIN f \cup {k} |-> IF x = k THEN v ELSE f[x]]

\* AddSyncTarget with the duplicate check left out.
AddSyncTargetUnchecked(mt, sp, target) ==
    [err |-> FALSE,
     managedTargets |-> With(mt, target.ID, Len(sp) + 1),
     sup |-> Append(sp, [Target |-> target, pc |-> "init", period |-> 0])]

\* AddSyncTarget, under w.mu: the registry and the goroutines after the call.
AddSyncTarget(mt, sp, target) ==
    IF target.ID \in DOMAIN mt
    THEN [err |-> TRUE, managedTargets |-> mt, sup |-> sp]
    ELSE [err |-> FALSE,
          managedTargets |-> With(mt, target.ID, Len(sp) + 1),
          sup |-> Append(sp, [Target |-> target, pc |-> "init", period |-> 0])]

\* The deregistration of a failed supervisor forgotten.
DeregisterNothing(mt, id) == mt

\* manageSyncTarget on a failed initialization: delete(w.managedTargets, target.ID).
Deregister(mt, id) == Without(mt, id)

\* Worker.Start's loop stopping at the first AddSyncTarget error.
StartAdvanceBreak(idx, err, n) == IF err THEN n + 1 ELSE idx + 1

\* Worker.Start's range loop: an AddSyncTarget error is logged and the loop goes on.
StartAdvance(idx, err, n) == idx + 1

NoAdd == [ID |-> 0, err |-> FALSE]

Live(n) == sup[n].pc # "terminated"
Supervisors(id) == {n \in 1..Len(sup) : sup[n].Target.ID = id}
LiveSupervisors(id) == {n \in Supervisors(id) : Live(n)}

(***************************************************************************)
(* Idle values of the variables the other specifications use               *)
(***************************************************************************)
SysIdle ==
    /\ mainpc = "off" /\ startTargets = <<>> /\ startIdx = 0 /\ startLoaded = FALSE
    /\ catalog = <<>> /\ fileCorrupt = FALSE /\ managedTargets = <<>> /\ sup = <<>>
    /\ posts = <<>> /\ issued = 0 /\ lastAdd = NoAdd
NoTick == [prev |-> "", seen |-> "", listed |-> FALSE, pass |-> FALSE, recorded |-> ""]
NoLate == [ticks |-> 0, applies |-> 0]
NoPass == [commit |-> "", files |-> 0, failed |-> 0]
Pass(commit, files) == [commit |-> commit, files |-> Len(files), failed |-> 0]
NoRet  == [err |-> "", errs |-> <<>>, causes |-> <<>>, attempted |-> <<>>,
           discovered |-> <<>>, patched |-> <<>>]
NoEnv  == [read |-> TRUE, docs |-> <<>>]
NoGmf  == [called |-> FALSE, path |-> <<>>, err |-> "", files |-> <<>>]

PollIdle ==
    /\ ppc = "off" /\ lastCommitHash = "" /\ remote = "" /\ head = ""
    /\ pfiles = <<>> /\ pidx = 0 /\ ticks = 0 /\ pushes = 0
    /\ detections = 0 /\ tickPasses = 0 /\ tick = NoTick
    /\ stop = "no" /\ late = NoLate
    /\ worktree = "absent" /\ unlisted = "" /\ applied = NoPass
ApplyIdle ==
    /\ content = <<>> /\ cluster = <<>> /\ napplied = 0 /\ ret = NoRet
    /\ env = NoEnv /\ prev = [cluster |-> <<>>, ret |-> NoRet]
\* The catalog file: "missing", "empty", "unreadable" (os.ReadFile fails),
\* "undecryptable", "notjson" (decrypts to something that is no JSON list),
\* or "list" with the targets it holds.
File(kind, targets) == [kind |-> kind, targets |-> targets]
NoOp == [op |-> "none", target |-> NoTarget, before |-> File("missing", <<>>),
         err |-> FALSE, targets |-> <<>>]
CatIdle ==
    /\ store = File("missing", <<>>) /\ lastOp = NoOp
FilesIdle ==
    /\ tree = <<>> /\ gmf = NoGmf
NoResp == [mux |-> "", method |-> "", path |-> <<>>, handler |-> "", status |-> 0,
           catalog |-> <<>>, managedTargets |-> <<>>]
RouteIdle ==
    /\ requests = 0 /\ resp = NoResp
Unlocked == [kind |-> "none", n |-> 0]
MultiIdle ==
    /\ mu = Unlocked /\ callers = <<>> /\ hashOf = <<>> /\ dirs = <<>>

(***************************************************************************)
(* Spec: main, Worker.Start, the POST handler, the supervisors' life cycle *)
(***************************************************************************)
IdlePost == [pc |-> "idle", target |-> NoTarget, targets |-> <<>>, status |-> 0]

\* The process at the entry of main: NewWorker has made an empty registry, the
\* catalog file is what an earlier run (or nothing) left.
InitProcess(catalogs, nposts) ==
    /\ mainpc = "start"
    /\ startTargets = <<>> /\ startIdx = 0 /\ startLoaded = FALSE
    /\ catalog \in catalogs
    /\ fileCorrupt \in BOOLEAN
    /\ fileCorrupt => catalog = <<>>
    /\ managedTargets = <<>>
    /\ sup = <<>>
    /\ posts = [p \in 1..nposts |-> IdlePost]
    /\ issued = 0
    /\ lastAdd = NoAdd
    /\ PollIdle /\ ApplyIdle /\ FilesIdle /\ CatIdle /\ RouteIdle /\ MultiIdle

\* Worker.Start up to its loop: LoadSyncTargets; on an error Start logs and
\* returns, and main goes on to start the server.
StartLoad ==
    /\ mainpc = "start"
    /\ LET loaded == LoadSyncTargets(catalog, fileCorrupt)
       IN  /\ startLoaded' = ~loaded.err
           /\ startTargets' = loaded.targets
           /\ startIdx' = 1
           /\ mainpc' = IF loaded.err \/ Len(loaded.targets) = 0 THEN "serving" ELSE "adding"
    /\ UNCHANGED <<catalog, fileCorrupt, managedTargets, sup, posts, issued, lastAdd>>
    /\ UNCHANGED <<pollVars, applyVars, fileVars, catVars, routeVars, multiVars>>

\* One iteration of Worker.Start's loop; after the last one Start returns and
\* main starts the HTTP server.
StartAdd ==
    /\ mainpc = "adding"
    /\ LET target == startTargets[startIdx]
           r == AddSyncTarget(managedTargets, sup, target)
           next == StartAdvance(startIdx, r.err, Len(startTargets))
       IN  /\ managedTargets' = r.managedTargets
           /\ sup' = r.sup
           /\ lastAdd' = [ID |-> target.ID, err |-> r.err]
           /\ startIdx' = next
           /\ mainpc' = IF next > Len(startTargets) THEN "serving" ELSE "adding"
    /\ UNCHANGED <<startTargets, startLoaded, catalog, fileCorrupt, posts, issued>>
    /\ UNCHANGED <<pollVars, applyVars, fileVars, catVars, routeVars, multiVars>>

\* The validation without its test of ManifestPath.
ValidateNoManifestPath(body) ==
    IF body = NotJSON THEN 400
    ELSE IF body.RepoURL = "" THEN 400
    ELSE IF body.RepoBranch = "" THEN 400
    ELSE IF body.KubeConfigContent = "" THEN 400
    ELSE 0
\* The validation of handleCreateSyncTarget: the status it answers, 0 to go on.
Validate(body) ==
    IF body = NotJSON THEN 400
    ELSE IF body.RepoURL = "" THEN 400
    ELSE IF body.RepoBranch = "" THEN 400
    ELSE IF body.KubeConfigContent = "" THEN 400
    ELSE IF body.ManifestPath = "" THEN 400
    ELSE 0

\* The handler keeping the poll interval as submitted.
NormalizeKeep(body) == body
Normalize(body) ==
    IF body.PollIntervalSeconds <= 0
    THEN [body EXCEPT !.PollIntervalSeconds = DefaultPollInterval]
    ELSE body

\* An id generator that returns the same id at every call.
NewUUIDSame(n) == NumStoredIds + 1
\* uuid.NewString: an id no catalog and no earlier call holds.
NewUUID(n) == NumStoredIds + n + 1

\* handleCreateSyncTarget up to the first access to the catalog file: decode,
\* validate, normalise, generate the id, and SaveSyncTarget's LoadSyncTargets.
PostBegin(p, body) ==
    /\ mainpc = "serving"
    /\ posts[p].pc = "idle"
    /\ IF Validate(body) # 0
       THEN /\ posts' = [posts EXCEPT ![p] = [IdlePost EXCEPT !.pc = "done", !.status = Validate(body)]]
            /\ UNCHANGED issued
       ELSE LET target == [Normalize(body) EXCEPT !.ID = NewUUID(issued)]
                loaded == SaveLoadedList(LoadSyncTargets(catalog, fileCorrupt))
            IN  /\ issued' = issued + 1
                /\ posts' = [posts EXCEPT ![p] =
                       IF loaded.fail
                       THEN [pc |-> "done", target |-> target, targets |-> <<>>, status |-> 500]
                       ELSE [pc |-> "loaded", target |-> target, targets |-> loaded.targets, status |-> 0]]
    /\ UNCHANGED <<mainpc, startTargets, startIdx, startLoaded, catalog, fileCorrupt,
                   managedTargets, sup, lastAdd>>
    /\ UNCHANGED <<pollVars, applyVars, fileVars, catVars, routeVars, multiVars>>

\* The handler going on to AddSyncTarget whatever SaveSyncTarget returned.
AfterSaveIgnoreError(post, err) == [post EXCEPT !.pc = "saved"]

\* The handler on the return of SaveSyncTarget: an error is answered 500 and
\* the handler returns; else it goes on to AddSyncTarget.
AfterSave(post, err) ==
    IF err THEN [post EXCEPT !.pc = "done", !.status = 500]
    ELSE [post EXCEPT !.pc = "saved"]
\* The rest of SaveSyncTarget: upsert into the list it loaded, encode, encrypt
\* and os.WriteFile; a write error is answered 500.
PostWrite(p, ok) ==
    /\ posts[p].pc = "loaded"
    /\ IF ok
       THEN /\ catalog' = Upsert(posts[p].targets, posts[p].target)
            /\ fileCorrupt' = FALSE
       ELSE UNCHANGED <<catalog, fileCorrupt>>
    /\ posts' = [posts EXCEPT ![p] = AfterSave(posts[p], ~ok)]
    /\ UNCHANGED <<mainpc, startTargets, startIdx, startLoaded, managedTargets, sup,
                   issued, lastAdd>>
    /\ UNCHANGED <<pollVars, applyVars, fileVars, catVars, routeVars, multiVars>>

\* The handler after SaveSyncTarget: AddSyncTarget, then 201 or 500.
PostAdd(p) ==
    /\ posts[p].pc = "saved"
    /\ LET r == AddSyncTarget(managedTargets, sup, posts[p].target)
       IN  /\ managedTargets' = r.managedTargets
           /\ sup' = r.sup
           /\ lastAdd' = [ID |-> posts[p].target.ID, err |-> r.err]
           /\ posts' = [posts EXCEPT ![p].pc = "done",
                                     ![p].status = IF r.err THEN 500 ELSE 201]
    /\ UNCHANGED <<mainpc, startTargets, startIdx, startLoaded, catalog, fileCorrupt, issued>>
    /\ UNCHANGED <<pollVars, applyVars, fileVars, catVars, routeVars, multiVars>>

\* manageSyncTarget's initialization can succeed: NewKubeHandler parses the
\* kubeconfig content, NewGitPoller wants its arguments non-empty.
\* time.Second, durations being counted in seconds; the intervals of the
\* model are far from the range of time.Duration.
Second == 1

\* The period of the supervisor's ticker.
TickerPeriod(poll) ==
    IF poll * Second <= 0 THEN DefaultPollInterval * Second ELSE poll * Second
InitCanSucceed(target) ==
    /\ target.KubeConfigContent = "kubeconfig"
    /\ target.RepoURL # "" /\ target.RepoBranch # "" /\ target.ManifestPath # ""

\* manageSyncTarget: NewKubeHandler, NewGitPoller and InitializeRepo succeed;
\* the goroutine goes on to its initial poll and its loop (SpecPoll).
SupInitOK(n) ==
    /\ sup[n].pc = "init"
    /\ InitCanSucceed(sup[n].Target)
    /\ sup' = [sup EXCEPT ![n].pc = "running",
                          ![n].period = TickerPeriod(sup[n].Target.PollIntervalSeconds)]
    /\ UNCHANGED <<mainpc, startTargets, startIdx, startLoaded, catalog, fileCorrupt,
                   managedTargets, posts, issued, lastAdd>>
    /\ UNCHANGED <<pollVars, applyVars, fileVars, catVars, routeVars, multiVars>>

\* manageSyncTarget: one of the three fails (the clone can always fail); the
\* goroutine deletes managedTargets[target.ID] under w.mu and returns.
SupInitFail(n) ==
    /\ sup[n].pc = "init"
    /\ managedTargets' = Deregister(managedTargets, sup[n].Target.ID)
    /\ sup' = [sup EXCEPT ![n].pc = "terminated"]
    /\ UNCHANGED <<mainpc, startTargets, startIdx, startLoaded, catalog, fileCorrupt,
                   posts, issued, lastAdd>>
    /\ UNCHANGED <<pollVars, applyVars, fileVars, catVars, routeVars, multiVars>>

Init == InitProcess(InitialCatalogs(MaxStored), MaxPosts)

Next ==
    \/ StartLoad
    \/ StartAdd
    \/ \E p \in DOMAIN posts, body \in Bodies : PostBegin(p, body)
    \/ \E p \in DOMAIN posts, ok \in BOOLEAN : PostWrite(p, ok)
    \/ \E p \in DOMAIN posts : PostAdd(p)
    \/ \E n \in 1..Len(sup) : SupInitOK(n)
    \/ \E n \in 1..Len(sup) : SupInitFail(n)

\* The process from the entry of main on, serving requests.
Spec == Init /\ [][Next]_vars

\* The start of the process, before the server accepts a request.
InitStart == InitProcess(InitialCatalogs(MaxCatalog), 0)

NextStart ==
    \/ StartLoad
    \/ StartAdd
    \/ \E n \in 1..Len(sup) : SupInitOK(n)
    \/ \E n \in 1..Len(sup) : SupInitFail(n)

SpecStart == InitStart /\ [][NextStart]_vars

(***************************************************************************)
(* SpecPoll: GitPoller.Poll and the reconciliation loop of one supervisor  *)
(***************************************************************************)
MaxTicks  == 3   \* ticks of the supervisor's ticker
MaxPushes == 2   \* pushes to the tracked branch
MaxLate   == 2   \* ticks and applies counted after the stop signal

Commits == {"c1", "c2", "c3"}

\* The manifest files under the manifest path at each commit.
FilesAt(c) ==
    CASE c = "c1" -> <<"a.yaml">>
      [] c = "c2" -> <<"a.yaml", "b.yml">>
      [] OTHER    -> <<>>

\* A Poll that reports a new commit without recording its hash.
PollNoRecord(last, rem, hd, fetchOK, hashOK, listOK) ==
    IF ~fetchOK
    THEN [changed |-> FALSE, commitHash |-> "", manifestFiles |-> <<>>, err |-> TRUE,
          lastCommitHash |-> last, head |-> hd, listed |-> FALSE]
    ELSE IF ~hashOK
    THEN [changed |-> FALSE, commitHash |-> "", manifestFiles |-> <<>>, err |-> TRUE,
          lastCommitHash |-> last, head |-> rem, listed |-> FALSE]
    ELSE IF last = ""
    THEN [changed |-> listOK, commitHash |-> rem,
          manifestFiles |-> IF listOK THEN FilesAt(rem) ELSE <<>>, err |-> ~listOK,
          lastCommitHash |-> rem, head |-> rem, listed |-> TRUE]
    ELSE IF rem # last
    THEN [changed |-> TRUE, commitHash |-> rem,
          manifestFiles |-> IF listOK THEN FilesAt(rem) ELSE <<>>, err |-> ~listOK,
          lastCommitHash |-> last, head |-> rem, listed |-> TRUE]
    ELSE [changed |-> FALSE, commitHash |-> last, manifestFiles |-> <<>>, err |-> FALSE,
          lastCommitHash |-> last, head |-> rem, listed |-> FALSE]
\* A Poll whose first observation is a baseline and no change.
PollFirstBaseline(last, rem, hd, fetchOK, hashOK, listOK) ==
    IF ~fetchOK
    THEN [changed |-> FALSE, commitHash |-> "", manifestFiles |-> <<>>, err |-> TRUE,
          lastCommitHash |-> last, head |-> hd, listed |-> FALSE]
    ELSE IF ~hashOK
    THEN [changed |-> FALSE, commitHash |-> "", manifestFiles |-> <<>>, err |-> TRUE,
          lastCommitHash |-> last, head |-> rem, listed |-> FALSE]
    ELSE IF last = ""
    THEN [changed |-> FALSE, commitHash |-> rem, manifestFiles |-> <<>>, err |-> FALSE,
          lastCommitHash |-> rem, head |-> rem, listed |-> FALSE]
    ELSE IF rem # last
    THEN [changed |-> TRUE, commitHash |-> rem,
          manifestFiles |-> IF listOK THEN FilesAt(rem) ELSE <<>>, err |-> ~listOK,
          lastCommitHash |-> rem, head |-> rem, listed |-> TRUE]
    ELSE [changed |-> FALSE, commitHash |-> last, manifestFiles |-> <<>>, err |-> FALSE,
          lastCommitHash |-> last, head |-> rem, listed |-> FALSE]
\* A Poll whose failed fetch or hash read clears the recorded hash.
PollForgetOnError(last, rem, hd, fetchOK, hashOK, listOK) ==
    IF ~fetchOK
    THEN [changed |-> FALSE, commitHash |-> "", manifestFiles |-> <<>>, err |-> TRUE,
          lastCommitHash |-> "", head |-> hd, listed |-> FALSE]
    ELSE IF ~hashOK
    THEN [changed |-> FALSE, commitHash |-> "", manifestFiles |-> <<>>, err |-> TRUE,
          lastCommitHash |-> "", head |-> rem, listed |-> FALSE]
    ELSE IF last = ""
    THEN [changed |-> listOK, commitHash |-> rem,
          manifestFiles |-> IF listOK THEN FilesAt(rem) ELSE <<>>, err |-> ~listOK,
          lastCommitHash |-> rem, head |-> rem, listed |-> TRUE]
    ELSE IF rem # last
    THEN [changed |-> TRUE, commitHash |-> rem,
          manifestFiles |-> IF listOK THEN FilesAt(rem) ELSE <<>>, err |-> ~listOK,
          lastCommitHash |-> rem, head |-> rem, listed |-> TRUE]
    ELSE [changed |-> FALSE, commitHash |-> last, manifestFiles |-> <<>>, err |-> FALSE,
          lastCommitHash |-> last, head |-> rem, listed |-> FALSE]
\* GitPoller.Poll.  fetchOK, hashOK, listOK: FetchLatest, GetCurrentCommitHash
\* and GetManifestFiles return no error.  FetchLatest hard-resets the worktree
\* to the remote-tracking reference.
Poll(last, rem, hd, fetchOK, hashOK, listOK) ==
    IF ~fetchOK
    THEN [changed |-> FALSE, commitHash |-> "", manifestFiles |-> <<>>, err |-> TRUE,
          lastCommitHash |-> last, head |-> hd, listed |-> FALSE]
    ELSE IF ~hashOK
    THEN [changed |-> FALSE, commitHash |-> "", manifestFiles |-> <<>>, err |-> TRUE,
          lastCommitHash |-> last, head |-> rem, listed |-> FALSE]
    ELSE IF last = ""
    THEN [changed |-> listOK, commitHash |-> rem,
          manifestFiles |-> IF listOK THEN FilesAt(rem) ELSE <<>>, err |-> ~listOK,
          lastCommitHash |-> rem, head |-> rem, listed |-> TRUE]
    ELSE IF rem # last
    THEN [changed |-> TRUE, commitHash |-> rem,
          manifestFiles |-> IF listOK THEN FilesAt(rem) ELSE <<>>, err |-> ~listOK,
          lastCommitHash |-> rem, head |-> rem, listed |-> TRUE]
    ELSE [changed |-> FALSE, commitHash |-> last, manifestFiles |-> <<>>, err |-> FALSE,
          lastCommitHash |-> last, head |-> rem, listed |-> FALSE]

\* A supervisor whose initialization has succeeded: the repository is cloned,
\* no hash is recorded yet.
InitPoll ==
    /\ ppc = "initialPoll"
    /\ lastCommitHash = ""
    /\ remote \in Commits
    /\ head = remote
    /\ pfiles = <<>> /\ pidx = 0 /\ ticks = 0 /\ pushes = 0
    /\ detections = 0 /\ tickPasses = 0 /\ tick = NoTick
    /\ stop = "no" /\ late = NoLate
    /\ worktree = "present" /\ unlisted = "" /\ applied = NoPass
    /\ SysIdle /\ ApplyIdle /\ FilesIdle /\ CatIdle /\ RouteIdle /\ MultiIdle

\* The hash recorded by a poll whose GetManifestFiles failed, until a poll
\* lists the manifest files again.
Unlisted(r, before) ==
    IF r.listed THEN (IF r.err THEN r.lastCommitHash ELSE "") ELSE before

\* An initial poll whose error ends the goroutine.
InitialPollExit(fetchOK, hashOK, listOK) ==
    /\ ppc = "initialPoll"
    /\ LET r == Poll(lastCommitHash, remote, head, fetchOK, hashOK, listOK)
       IN  /\ lastCommitHash' = r.lastCommitHash
           /\ head' = r.head
           /\ pfiles' = IF r.changed THEN r.manifestFiles ELSE <<>>
           /\ pidx' = 1
           /\ ppc' = IF r.err THEN "terminated"
                     ELSE IF r.changed /\ Len(r.manifestFiles) > 0 THEN "applyInitial"
                     ELSE "loop"
           /\ unlisted' = Unlisted(r, unlisted)
           /\ applied' = IF r.changed THEN Pass(r.commitHash, r.manifestFiles) ELSE applied
    /\ UNCHANGED <<remote, ticks, pushes, detections, tickPasses, tick, stop, late, worktree>>
    /\ UNCHANGED <<sysVars, applyVars, fileVars, catVars, routeVars, multiVars>>
\* manageSyncTarget's initial poll: an error is logged; the files are applied
\* when Poll reports a change; then the ticker is started.
InitialPoll(fetchOK, hashOK, listOK) ==
    /\ ppc = "initialPoll"
    /\ LET r == Poll(lastCommitHash, remote, head, fetchOK, hashOK, listOK)
       IN  /\ lastCommitHash' = r.lastCommitHash
           /\ head' = r.head
           /\ pfiles' = IF r.changed THEN r.manifestFiles ELSE <<>>
           /\ pidx' = 1
           /\ ppc' = IF r.changed /\ Len(r.manifestFiles) > 0 THEN "applyInitial" ELSE "loop"
           /\ unlisted' = Unlisted(r, unlisted)
           /\ applied' = IF r.changed THEN Pass(r.commitHash, r.manifestFiles) ELSE applied
    /\ UNCHANGED <<remote, ticks, pushes, detections, tickPasses, tick, stop, late, worktree>>
    /\ UNCHANGED <<sysVars, applyVars, fileVars, catVars, routeVars, multiVars>>

\* An apply pass that a failed file ends, the goroutine returning.
ApplyNextAbort(ok) ==
    /\ ppc \in {"applyInitial", "applyTick"}
    /\ pidx' = pidx + 1
    /\ ppc' = IF ~ok THEN "terminated"
              ELSE IF pidx + 1 > Len(pfiles) THEN "loop" ELSE ppc
    /\ late' = IF stop = "fired" /\ late.applies < MaxLate
               THEN [late EXCEPT !.applies = @ + 1] ELSE late
    /\ applied' = IF ok THEN applied ELSE [applied EXCEPT !.failed = @ + 1]
    /\ UNCHANGED <<lastCommitHash, remote, head, pfiles, ticks, pushes, detections,
                   tickPasses, tick, stop, worktree, unlisted>>
    /\ UNCHANGED <<sysVars, applyVars, fileVars, catVars, routeVars, multiVars>>
\* One iteration of a range loop over manifestFiles: ApplyManifestFile on the
\* next file; its error is only logged.
ApplyNext(ok) ==
    /\ ppc \in {"applyInitial", "applyTick"}
    /\ pidx' = pidx + 1
    /\ ppc' = IF pidx + 1 > Len(pfiles) THEN "loop" ELSE ppc
    /\ late' = IF stop = "fired" /\ late.applies < MaxLate
               THEN [late EXCEPT !.applies = @ + 1] ELSE late
    /\ applied' = IF ok THEN applied ELSE [applied EXCEPT !.failed = @ + 1]
    /\ UNCHANGED <<lastCommitHash, remote, head, pfiles, ticks, pushes, detections,
                   tickPasses, tick, stop, worktree, unlisted>>
    /\ UNCHANGED <<sysVars, applyVars, fileVars, catVars, routeVars, multiVars>>

\* A tick served while the files of the last one are still being applied.
TickOverlap(fetchOK, hashOK, listOK) ==
    /\ ppc \in {"loop", "applyInitial", "applyTick"}
    /\ ticks < MaxTicks
    /\ LET r == Poll(lastCommitHash, remote, head, fetchOK, hashOK, listOK)
           seen == IF fetchOK /\ hashOK THEN remote ELSE ""
           pass == ~r.err /\ r.changed
           after == lastCommitHash # ""
       IN  /\ lastCommitHash' = r.lastCommitHash
           /\ head' = r.head
           /\ pfiles' = IF pass THEN r.manifestFiles ELSE <<>>
           /\ pidx' = 1
           /\ ppc' = IF pass /\ Len(r.manifestFiles) > 0 THEN "applyTick" ELSE "loop"
           /\ tick' = [prev |-> lastCommitHash, seen |-> seen, listed |-> r.listed,
                       pass |-> pass, recorded |-> r.lastCommitHash]
           /\ detections' = IF after /\ seen # "" /\ seen # lastCommitHash
                             THEN detections + 1 ELSE detections
           /\ tickPasses' = IF after /\ pass THEN tickPasses + 1 ELSE tickPasses
           /\ unlisted' = Unlisted(r, unlisted)
           /\ applied' = IF pass THEN Pass(r.commitHash, r.manifestFiles) ELSE applied
    /\ ticks' = ticks + 1
    /\ late' = IF stop = "fired" /\ late.ticks < MaxLate
               THEN [late EXCEPT !.ticks = @ + 1] ELSE late
    /\ UNCHANGED <<remote, pushes, stop, worktree>>
    /\ UNCHANGED <<sysVars, applyVars, fileVars, catVars, routeVars, multiVars>>
\* The ticker case of the select loop: Poll; on an error continue; on a change
\* apply the files.
Tick(fetchOK, hashOK, listOK) ==
    /\ ppc = "loop"
    /\ ticks < MaxTicks
    /\ LET r == Poll(lastCommitHash, remote, head, fetchOK, hashOK, listOK)
           seen == IF fetchOK /\ hashOK THEN remote ELSE ""
           pass == ~r.err /\ r.changed
           after == lastCommitHash # ""
       IN  /\ lastCommitHash' = r.lastCommitHash
           /\ head' = r.head
           /\ pfiles' = IF pass THEN r.manifestFiles ELSE <<>>
           /\ pidx' = 1
           /\ ppc' = IF pass /\ Len(r.manifestFiles) > 0 THEN "applyTick" ELSE "loop"
           /\ tick' = [prev |-> lastCommitHash, seen |-> seen, listed |-> r.listed,
                       pass |-> pass, recorded |-> r.lastCommitHash]
           /\ detections' = IF after /\ seen # "" /\ seen # lastCommitHash
                             THEN detections + 1 ELSE detections
           /\ tickPasses' = IF after /\ pass THEN tickPasses + 1 ELSE tickPasses
           /\ unlisted' = Unlisted(r, unlisted)
           /\ applied' = IF pass THEN Pass(r.commitHash, r.manifestFiles) ELSE applied
    /\ ticks' = ticks + 1
    /\ late' = IF stop = "fired" /\ late.ticks < MaxLate
               THEN [late EXCEPT !.ticks = @ + 1] ELSE late
    /\ UNCHANGED <<remote, pushes, stop, worktree>>
    /\ UNCHANGED <<sysVars, applyVars, fileVars, catVars, routeVars, multiVars>>

\* Somebody pushes a commit to the tracked branch.
RemotePush(c) ==
    /\ ppc # "off"
    /\ pushes < MaxPushes
    /\ c # remote
    /\ remote' = c
    /\ pushes' = pushes + 1
    /\ UNCHANGED <<ppc, lastCommitHash, head, pfiles, pidx, ticks, detections, tickPasses,
                   tick, stop, late, worktree, unlisted, applied>>
    /\ UNCHANGED <<sysVars, applyVars, fileVars, catVars, routeVars, multiVars>>

\* The stop signal fires: StopChan becomes ready.  The supervisor is not at
\* its select at that moment unless ppc = "loop".
StopFire ==
    /\ ppc \notin {"off", "stopping", "terminated"}
    /\ stop = "no"
    /\ stop' = "fired"
    /\ UNCHANGED <<ppc, lastCommitHash, remote, head, pfiles, pidx, ticks, pushes,
                   detections, tickPasses, tick, late, worktree, unlisted, applied>>
    /\ UNCHANGED <<sysVars, applyVars, fileVars, catVars, routeVars, multiVars>>

\* The stop case of the select loop is drawn.  The select takes whichever
\* ready case it draws, so Tick stays enabled while the ticker has fired too.
StopObserve ==
    /\ ppc = "loop"
    /\ stop = "fired"
    /\ stop' = "observed"
    /\ ppc' = "stopping"
    /\ UNCHANGED <<lastCommitHash, remote, head, pfiles, pidx, ticks, pushes,
                   detections, tickPasses, tick, late, worktree, unlisted, applied>>
    /\ UNCHANGED <<sysVars, applyVars, fileVars, catVars, routeVars, multiVars>>

\* The goroutines after the one started last has returned.
GoroutineReturned(sp) ==
    [n \in DOMAIN sp |-> IF n = Len(sp) THEN [sp[n] EXCEPT !.pc = "terminated"] ELSE sp[n]]

\* A stop case that returns without the cleanup.
StopCleanupSkip(removed) ==
    /\ ppc = "stopping"
    /\ ppc' = "terminated"
    /\ sup' = GoroutineReturned(sup)
    /\ UNCHANGED <<lastCommitHash, remote, head, pfiles, pidx, ticks, pushes,
                   detections, tickPasses, tick, stop, late, worktree, unlisted, applied>>
    /\ UNCHANGED <<mainpc, startTargets, startIdx, startLoaded, catalog, fileCorrupt,
                   managedTargets, posts, issued, lastAdd>>
    /\ UNCHANGED <<applyVars, fileVars, catVars, routeVars, multiVars>>

\* The body of the stop case: os.RemoveAll(repoPath), whose error is only
\* logged and leaves the directory or a part of it ("leftover"), and return.
\* The registry is not touched.
StopCleanup(removed) ==
    /\ ppc = "stopping"
    /\ worktree' = IF removed THEN "absent" ELSE "leftover"
    /\ ppc' = "terminated"
    /\ sup' = GoroutineReturned(sup)
    /\ UNCHANGED <<lastCommitHash, remote, head, pfiles, pidx, ticks, pushes,
                   detections, tickPasses, tick, stop, late, unlisted, applied>>
    /\ UNCHANGED <<mainpc, startTargets, startIdx, startLoaded, catalog, fileCorrupt,
                   managedTargets, posts, issued, lastAdd>>
    /\ UNCHANGED <<applyVars, fileVars, catVars, routeVars, multiVars>>

NextPoll ==
    \/ \E f \in BOOLEAN, h \in BOOLEAN, l \in BOOLEAN : InitialPoll(f, h, l)
    \/ \E ok \in BOOLEAN : ApplyNext(ok)
    \/ \E f \in BOOLEAN, h \in BOOLEAN, l \in BOOLEAN : Tick(f, h, l)
    \/ \E c \in Commits : RemotePush(c)
    \/ StopFire
    \/ StopObserve
    \/ \E removed \in BOOLEAN : StopCleanup(removed)

SpecPoll == InitPoll /\ [][NextPoll]_vars

\* C3: on a tick after a hash H was recorded: when the hash observed after
\* the fetch equals H, no manifest is listed or applied and the recorded hash
\* stays H; when it differs, the apply pass is entered exactly once, so the
\* passes entered on such ticks number the changes detected.
C3_ChangeAppliedExactlyOnce ==
    /\ tickPasses = detections
    /\ (tick.prev # "" /\ tick.seen = tick.prev) =>
          (~tick.listed /\ ~tick.pass /\ tick.recorded = tick.prev)

(***************************************************************************)
(* SpecApply: KubeHandler.ApplyManifestFile                                *)
(***************************************************************************)
MaxLen     == 3   \* tokens of a manifest file's content
MaxApplies == 2   \* successive calls of ApplyManifestFile on the file

\* A file's content is a sequence of tokens: the separator "---", a line
\* break, or the text of one YAML document.
SEP == "---"
NL  == "NL"

NoJSON == [null |-> TRUE, apiVersion |-> "", kind |-> "", namespace |-> "", name |-> "",
           data |-> ""]
Object(apiVersion, kind, namespace, name, data) ==
    [null |-> FALSE, apiVersion |-> apiVersion, kind |-> kind, namespace |-> namespace,
     name |-> name, data |-> data]

\* The document texts and what each one parses to.
DocTexts == {"cmA", "cmA2", "nsN", "crd", "comment", "bad", "noapi"}
Tokens == DocTexts \cup {SEP, NL}

\* yaml.YAMLToJSON: "bad" is not YAML; a document of comments only is null.
YAMLToJSON(text) ==
    CASE text = "cmA"     -> [err |-> FALSE, json |-> Object("v1", "ConfigMap", "", "a", "x")]
      [] text = "cmA2"    -> [err |-> FALSE, json |-> Object("v1", "ConfigMap", "default", "a", "y")]
      [] text = "cmP"     -> [err |-> FALSE, json |-> Object("v1", "ConfigMap", "prod", "a", "z")]
      [] text = "nsN"     -> [err |-> FALSE, json |-> Object("v1", "Namespace", "", "n", "x")]
      [] text = "nsNd"    -> [err |-> FALSE, json |-> Object("v1", "Namespace", "prod", "n", "y")]
      [] text = "crd"     -> [err |-> FALSE, json |-> Object("example.io/v1", "Widget", "", "w", "x")]
      [] text = "noapi"   -> [err |-> FALSE, json |-> Object("", "ConfigMap", "", "a", "x")]
      [] text = "comment" -> [err |-> FALSE, json |-> NoJSON]
      [] OTHER            -> [err |-> TRUE,  json |-> NoJSON]

\* A decoder that accepts any JSON value.
UnmarshalJSONAny(json) == [err |-> FALSE, msg |-> "", obj |-> json]
\* Unstructured.UnmarshalJSON: fails when the object has no kind.
UnmarshalJSON(json) ==
    IF json.null \/ json.kind = ""
    THEN [err |-> TRUE, msg |-> "Object 'Kind' is missing", obj |-> NoJSON]
    ELSE [err |-> FALSE, msg |-> "", obj |-> json]

\* What discovery serves for each group/version.
ServerResources(groupVersion) ==
    IF groupVersion = "v1"
    THEN << [Name |-> "configmaps", Kind |-> "ConfigMap", Namespaced |-> TRUE],
            [Name |-> "namespaces", Kind |-> "Namespace", Namespaced |-> FALSE] >>
    ELSE <<>>

NoResource == [Name |-> "", Kind |-> "", Namespaced |-> FALSE]

RECURSIVE FirstOfKind(_, _, _)
FirstOfKind(list, kind, i) ==
    IF i > Len(list) THEN 0
    ELSE IF list[i].Kind = kind THEN i
    ELSE FirstOfKind(list, kind, i + 1)

\* findAPIResource: discovery of the group/version, then the first resource
\* of the kind.
findAPIResource(apiVersion, kind, discoveryOK) ==
    LET list == ServerResources(apiVersion)
        i == FirstOfKind(list, kind, 1)
    IN  IF ~discoveryOK \/ list = <<>> THEN [err |-> TRUE, res |-> NoResource]
        ELSE IF i = 0 THEN [err |-> TRUE, res |-> NoResource]
        ELSE [err |-> FALSE, res |-> list[i]]

\* strings.Split(content, "---")
RECURSIVE SplitAt(_, _, _, _)
SplitAt(s, i, cur, acc) ==
    IF i > Len(s) THEN Append(acc, cur)
    ELSE IF s[i] = SEP THEN SplitAt(s, i + 1, <<>>, Append(acc, cur))
    ELSE SplitAt(s, i + 1, Append(cur, s[i]), acc)
Split(s) == SplitAt(s, 1, <<>>, <<>>)

\* No trimming at all.
TrimSpaceNone(s) == s
\* strings.TrimSpace
RECURSIVE TrimLeft(_)
TrimLeft(s) == IF s # <<>> /\ Head(s) = NL THEN TrimLeft(Tail(s)) ELSE s
RECURSIVE TrimRight(_)
TrimRight(s) ==
    IF s # <<>> /\ s[Len(s)] = NL THEN TrimRight(SubSeq(s, 1, Len(s) - 1)) ELSE s
TrimSpace(s) == TrimRight(TrimLeft(s))

\* The Patch call: a server-side apply by the field manager go-argo-lite with
\* Force makes the object's managed fields those of the document.
PatchAppend(cl, key, data) ==
    With(cl, key, IF key \in DOMAIN cl THEN Append(cl[key], data) ELSE <<data>>)
Patch(cl, key, data) == With(cl, key, <<data>>)

\* The loop over the documents ends after the last one; an error in a
\* document does not end it.
LoopDoneAtError(docs, i, st) == i > Len(docs) \/ st.errs # <<>>
LoopDone(docs, i, st) == i > Len(docs)

\* The namespace the object declares, whatever the resource.
PatchNamespaceDeclared(res, obj) == obj.namespace
\* The resource interface the patch goes through: Namespace(namespace) for a
\* namespaced resource, with "default" for an object that declares none; the
\* resource itself, without a namespace, for a cluster-scoped one.
PatchNamespace(res, obj) ==
    IF res.Namespaced
    THEN (IF obj.namespace = "" THEN "default" ELSE obj.namespace)
    ELSE ""
\* The body of the loop for the non-empty document i; outcome is what the
\* cluster does with it: "ok", "discovery" (discovery fails), "patch" (the
\* Patch call fails).
ApplyDoc(text, i, outcome, st) ==
    LET attempted == [st EXCEPT !.attempted = Append(@, i)]
        failed(s, cause, msg) ==
            [s EXCEPT !.errs = Append(@, i), !.causes = Append(@, <<cause, msg>>)]
        discovered == [attempted EXCEPT !.discovered = Append(@, i)]
        j == YAMLToJSON(text)
        u == UnmarshalJSON(j.json)
        r == findAPIResource(u.obj.apiVersion, u.obj.kind, outcome # "discovery")
        namespace == PatchNamespace(r.res, u.obj)
        key == <<r.res.Name, namespace, u.obj.name>>
    IN  IF j.err THEN failed(attempted, "YAML to JSON conversion failed", "")
        ELSE IF u.err THEN failed(attempted, "JSON unmarshalling failed", u.msg)
        ELSE IF u.obj.kind = "" \/ u.obj.apiVersion = ""
             THEN failed(attempted, "missing kind or apiVersion", "")
        ELSE IF r.err THEN failed(discovered, "API discovery failed", "")
        ELSE IF outcome = "patch" THEN failed(discovered, "apply failed", "")
        ELSE [discovered EXCEPT !.patched = Append(@, i),
                                !.cluster = Patch(st.cluster, key, u.obj.data)]

RECURSIVE ApplyDocs(_, _, _, _)
ApplyDocs(docs, i, outcomes, st) ==
    IF LoopDone(docs, i, st) THEN st
    ELSE LET doc == TrimSpace(docs[i])
         IN  IF doc = <<>> THEN ApplyDocs(docs, i + 1, outcomes, st)
             ELSE ApplyDocs(docs, i + 1, outcomes, ApplyDoc(doc[1], i, outcomes[i], st))

\* ApplyManifestFile: e.read says whether the file can be read, e.docs the
\* cluster's outcome for each part of the split.
\* ApplyManifestFile from the split on.
ApplyContent(c, cl, e) ==
    LET st == ApplyDocs(Split(c), 1, e.docs,
                        [errs |-> <<>>, causes |-> <<>>, attempted |-> <<>>,
                         discovered |-> <<>>, patched |-> <<>>, cluster |-> cl])
    IN  [ret |-> [err |-> IF Len(st.errs) > 0 THEN "apply" ELSE "none",
                  errs |-> st.errs, causes |-> st.causes, attempted |-> st.attempted,
                  discovered |-> st.discovered, patched |-> st.patched],
         cluster |-> st.cluster]

\* ApplyManifestFile going on when os.ReadFile fails.
ApplyManifestFileIgnoreRead(c, cl, e) == ApplyContent(c, cl, e)

ApplyManifestFile(c, cl, e) ==
    IF ~e.read
    THEN [ret |-> [NoRet EXCEPT !.err = "read"], cluster |-> cl]
    ELSE ApplyContent(c, cl, e)

\* Files in which each part of the split holds at most one document text.
WellFormed(c) ==
    \A k \in 1..Len(Split(c)) :
        Cardinality({x \in 1..Len(Split(c)[k]) : Split(c)[k][x] # NL}) <= 1
Contents(n) == {c \in SeqsUpTo(Tokens, n) : WellFormed(c)}

\* The part k of the content holds a document that reaches the cluster.
ReachesCluster(c, k) ==
    LET doc == TrimSpace(Split(c)[k])
    IN  /\ doc # <<>>
        /\ ~YAMLToJSON(doc[1]).err
        /\ ~UnmarshalJSON(YAMLToJSON(doc[1]).json).err
        /\ YAMLToJSON(doc[1]).json.apiVersion # ""

Envs(c) ==
    {e \in [read : BOOLEAN, docs : [1..Len(Split(c)) -> {"ok", "discovery", "patch"}]] :
        \A k \in 1..Len(Split(c)) : ~ReachesCluster(c, k) => e.docs[k] = "ok"}

InitialClusters ==
    {<<>>, With(<<>>, <<"configmaps", "default", "a">>, <<"w">>)}

InitApply ==
    /\ content \in Contents(MaxLen)
    /\ cluster \in InitialClusters
    /\ napplied = 0 /\ ret = NoRet /\ env = NoEnv
    /\ prev = [cluster |-> <<>>, ret |-> NoRet]
    /\ SysIdle /\ PollIdle /\ FilesIdle /\ CatIdle /\ RouteIdle /\ MultiIdle

Apply(e) ==
    /\ napplied < MaxApplies
    /\ LET r == ApplyManifestFile(content, cluster, e)
       IN  /\ cluster' = r.cluster
           /\ ret' = r.ret
    /\ env' = e
    /\ prev' = [cluster |-> cluster, ret |-> ret]
    /\ napplied' = napplied + 1
    /\ UNCHANGED content
    /\ UNCHANGED <<sysVars, pollVars, fileVars, catVars, routeVars, multiVars>>

NextApply == \E e \in Envs(content) : Apply(e)

SpecApply == InitApply /\ [][NextApply]_vars

RECURSIVE Ascending(_)
Ascending(S) ==
    IF S = {} THEN <<>>
    ELSE LET m == CHOOSE x \in S : \A y \in S : x <= y
         IN  <<m>> \o Ascending(S \ {m})

\* The parts of the file that are documents, and those of them that fail in
\* the last call.
Candidates == {k \in 1..Len(Split(content)) : TrimSpace(Split(content)[k]) # <<>>}
DocJSON(k) == YAMLToJSON(TrimSpace(Split(content)[k])[1]).json
Failing ==
    {k \in Candidates :
        \/ ~ReachesCluster(content, k)
        \/ findAPIResource(DocJSON(k).apiVersion, DocJSON(k).kind, TRUE).err
        \/ env.docs[k] # "ok"}

\* C7: a call of ApplyManifestFile that read the file attempted every
\* document in file order whatever failed before it; it returns an error
\* exactly when some document failed, the error lists exactly the failed
\* documents, and every other document has been patched to the cluster.
C7_AllDocumentsAttempted ==
    (napplied >= 1 /\ env.read) =>
        /\ ret.attempted = Ascending(Candidates)
        /\ ret.errs = Ascending(Failing)
        /\ (ret.err = "apply") <=> (Failing # {})
        /\ (ret.err = "none") <=> (Failing = {})
        /\ ret.patched = Ascending(Candidates \ Failing)
        /\ \A k \in Candidates \ Failing :
              \E key \in DOMAIN cluster : key[3] = DocJSON(k).name

C7_Witness ==
    /\ napplied >= 1 /\ env.read
    /\ Len(ret.errs) >= 1 /\ Len(ret.patched) >= 1
    /\ ret.errs[1] < ret.patched[1]

\* C8 as stated: the cluster after the second of two successive applies of
\* the file equals the cluster after the first.
C8_SecondApplyChangesNothing ==
    napplied >= 2 => cluster = prev.cluster

\* C8: when two successive applies of the file both return no error, the
\* cluster after the second equals the cluster after the first.
C8_ConvergedApplyIdempotent ==
    (napplied >= 2 /\ prev.ret.err = "none" /\ ret.err = "none") =>
        cluster = prev.cluster

C8_Witness ==
    /\ napplied >= 2 /\ prev.ret.err = "none" /\ ret.err = "none"
    /\ Len(ret.patched) >= 2
    /\ cluster = prev.cluster

(***************************************************************************)
(* SpecFiles: GitPoller.GetManifestFiles over a checked-out worktree       *)
(***************************************************************************)
\* A file name is the sequence of its parts between the dots.
K8S    == <<"k8s">>
AYAML  == <<"a", "yaml">>
BUPPER == <<"b", "YAML">>
CBAK   == <<"c", "yml", "bak">>
EYML   == <<"e", "yml">>
NESTED == <<"nested">>

\* os.ReadDir returns the entries of a directory sorted by file name.
NameOrder == <<AYAML, BUPPER, CBAK, EYML, K8S, NESTED>>

\* The paths of the worktree, relative to the poller's local path.
Paths ==
    { <<K8S>>, <<AYAML>>, <<AYAML, EYML>>,
      <<K8S, AYAML>>, <<K8S, AYAML, EYML>>, <<K8S, BUPPER>>, <<K8S, CBAK>>,
      <<K8S, NESTED>>, <<K8S, NESTED, EYML>> }

\* What a checkout may put at each path; "noperm" is a directory that cannot
\* be read.
KindsAt(p) ==
    CASE p = <<K8S>>                -> {"dir", "file", "symlink"}
      [] p = <<AYAML>>              -> {"dir", "file"}
      [] p = <<K8S, AYAML>>         -> {"dir", "file", "symlink"}
      [] p = <<K8S, NESTED>>        -> {"dir", "file", "noperm"}
      [] p = <<K8S, NESTED, EYML>>  -> {"file", "symlink"}
      [] OTHER                      -> {"file"}

ManifestPaths == {K8S, AYAML}

\* filepath.Ext without its dot: the part after the last dot, if any.
Ext(name) == IF Len(name) >= 2 THEN name[Len(name)] ELSE ""

IsDir(kind) == kind \in {"dir", "noperm"}
Parent(p) == SubSeq(p, 1, Len(p) - 1)

\* The callback of the walk on an entry without an error: every entry that
\* is not a directory and whose extension is .yaml or .yml is appended.
Visit(p, kind) ==
    IF ~IsDir(kind) /\ Ext(p[Len(p)]) \in {"yaml", "yml"} THEN <<p>> ELSE <<>>

RECURSIVE Walk(_, _)
RECURSIVE WalkEntries(_, _, _, _)
\* filepath.WalkDir from p: the callback on p, then, for a directory, its
\* entries in name order; a directory that cannot be read ends the walk with
\* the error.
Walk(t, p) ==
    IF t[p] = "noperm" THEN [err |-> TRUE, files |-> <<>>]
    ELSE IF t[p] = "dir" THEN WalkEntries(t, p, 1, <<>>)
    ELSE [err |-> FALSE, files |-> Visit(p, t[p])]
WalkEntries(t, p, i, acc) ==
    IF i > Len(NameOrder) THEN [err |-> FALSE, files |-> acc]
    ELSE LET q == Append(p, NameOrder[i])
         IN  IF q \notin Paths \/ t[q] = "absent" THEN WalkEntries(t, p, i + 1, acc)
             ELSE LET w == Walk(t, q)
                  IN  IF w.err THEN [err |-> TRUE, files |-> <<>>]
                      ELSE WalkEntries(t, p, i + 1, acc \o w.files)

\* GetManifestFiles with manifestPathInRepo = mp.
GetManifestFiles(t, mp) ==
    IF t[<<mp>>] = "absent" THEN [err |-> "notfound", files |-> <<>>]
    ELSE LET w == Walk(t, <<mp>>)
         IN  IF w.err THEN [err |-> "walk", files |-> <<>>]
             ELSE [err |-> "none", files |-> w.files]

InitFiles ==
    /\ tree = [p \in Paths |-> "absent"]
    /\ gmf = NoGmf
    /\ SysIdle /\ PollIdle /\ ApplyIdle /\ CatIdle /\ RouteIdle /\ MultiIdle

\* The checkout creates an entry in an existing directory.
Checkout(p, kind) ==
    /\ ~gmf.called
    /\ tree[p] = "absent"
    /\ Len(p) > 1 => IsDir(tree[Parent(p)])
    /\ tree' = [tree EXCEPT ![p] = kind]
    /\ UNCHANGED gmf
    /\ UNCHANGED <<sysVars, pollVars, applyVars, catVars, routeVars, multiVars>>

GetManifestFilesCall(mp) ==
    /\ LET r == GetManifestFiles(tree, mp)
       IN  gmf' = [called |-> TRUE, path |-> mp, err |-> r.err, files |-> r.files]
    /\ UNCHANGED tree
    /\ UNCHANGED <<sysVars, pollVars, applyVars, catVars, routeVars, multiVars>>

NextFiles ==
    \/ \E p \in Paths : \E kind \in KindsAt(p) : Checkout(p, kind)
    \/ \E mp \in ManifestPaths : GetManifestFilesCall(mp)

SpecFiles == InitFiles /\ [][NextFiles]_vars

Returned == {gmf.files[i] : i \in 1..Len(gmf.files)}
Beneath(p, mp) ==
    /\ Len(p) >= 2 /\ p[1] = mp
    /\ \A k \in 1..(Len(p) - 1) : tree[SubSeq(p, 1, k)] = "dir"
\* Entries beneath the manifest directory that carry a manifest extension.
RegularManifests(mp) ==
    {p \in Paths : Beneath(p, mp) /\ tree[p] = "file" /\ Ext(p[Len(p)]) \in {"yaml", "yml"}}
NamedAsManifest(mp) ==
    {p \in Paths : Beneath(p, mp) /\ tree[p] \in {"file", "symlink"}
                   /\ Ext(p[Len(p)]) \in {"yaml", "yml"}}
Unreadable(mp) == {p \in Paths : Beneath(p, mp) /\ tree[p] = "noperm"}

\* C9: a call of GetManifestFiles on an existing manifest directory that
\* returns no error returns exactly the regular files at any depth under the
\* directory whose extension is .yaml or .yml.
C9_ExactlyRegularManifests ==
    (gmf.called /\ gmf.err = "none" /\ tree[<<gmf.path>>] = "dir") =>
        Returned = RegularManifests(gmf.path)

\* C10: GetManifestFiles returns an error and no files when the manifest
\* directory does not exist, and an empty list without an error when the
\* directory exists, can be read and holds no manifest file.
C10_MissingDirectoryIsError ==
    gmf.called =>
        /\ tree[<<gmf.path>>] \in {"absent", "file"} =>
              (gmf.err # "none" /\ gmf.files = <<>>)
        /\ (tree[<<gmf.path>>] = "dir" /\ NamedAsManifest(gmf.path) = {}
            /\ Unreadable(gmf.path) = {}) =>
              (gmf.err = "none" /\ gmf.files = <<>>)

(***************************************************************************)
(* The registry and the catalog                                            *)
(***************************************************************************)
KnownIds == DOMAIN managedTargets \cup {sup[n].Target.ID : n \in 1..Len(sup)}

\* C1: every id in the registry has exactly one live supervisor goroutine
\* (the one started with its registry entry), and no id has two live
\* supervisors at the same time.
C1_OneLiveSupervisorPerId ==
    \A id \in KnownIds :
        /\ Cardinality(LiveSupervisors(id)) <= 1
        /\ id \in DOMAIN managedTargets =>
              LiveSupervisors(id) = {managedTargets[id]}

\* An id registered again after its first supervisor failed and deregistered.
C1_Witness ==
    \E id \in DOMAIN managedTargets :
        /\ Cardinality(Supervisors(id)) >= 2
        /\ Cardinality(LiveSupervisors(id)) = 1

\* A step that is a call of AddSyncTarget: an iteration of Worker.Start's loop
\* or the handler's call after SaveSyncTarget.
AddCalled ==
    \/ mainpc = "adding" /\ startIdx' # startIdx
    \/ \E p \in DOMAIN posts : posts[p].pc = "saved" /\ posts'[p].pc # "saved"

\* C2: AddSyncTarget with an id already in the registry returns an error,
\* leaves the registry unchanged and starts no supervisor; with an id not in
\* the registry it installs exactly one entry for that id, leaves the other
\* entries alone and starts exactly one supervisor, for that entry.
C2_AddSyncTarget ==
    [][AddCalled =>
        LET id == lastAdd'.ID
            n  == Len(sup)
        IN  IF id \in DOMAIN managedTargets
            THEN /\ lastAdd'.err
                 /\ managedTargets' = managedTargets
                 /\ sup' = sup
            ELSE /\ ~lastAdd'.err
                 /\ DOMAIN managedTargets' = DOMAIN managedTargets \cup {id}
                 /\ \A k \in DOMAIN managedTargets : managedTargets'[k] = managedTargets[k]
                 /\ Len(sup') = n + 1
                 /\ SubSeq(sup', 1, n) = sup
                 /\ managedTargets'[id] = n + 1
                 /\ sup'[n + 1].Target.ID = id
                 /\ sup'[n + 1].pc = "init"]_vars

\* AddSyncTarget has refused an id that is in the registry.
C2_Witness == lastAdd.err /\ lastAdd.ID \in DOMAIN managedTargets

Answered201 == {posts[p].target.ID : p \in {q \in DOMAIN posts : posts[q].status = 201}}

\* C4: every target whose POST /sync-targets was answered 201 is in the
\* persisted catalog at every later time, also when POST requests are handled
\* concurrently.
C4_Answered201Persisted == Answered201 \subseteq CatalogIds

\* C5: each target id in the registry has a record with that id in the
\* persisted catalog.
C5_RegistryInCatalog == DOMAIN managedTargets \subseteq CatalogIds

\* C6: when Worker.Start has returned after loading the catalog, every entry's
\* id is in the registry with a live supervisor, or a supervisor of that id
\* has failed its initialization and deregistered; no entry is skipped.
C6_StartRegistersEveryEntry ==
    (mainpc = "serving" /\ startLoaded) =>
        \A i \in 1..Len(startTargets) :
            LET id == startTargets[i].ID
            IN  \/ id \in DOMAIN managedTargets /\ LiveSupervisors(id) # {}
                \/ \E n \in Supervisors(id) : sup[n].pc = "terminated"

\* Start has returned; its second entry was refused as a duplicate of the
\* first, and its third entry is registered all the same.
C6_Witness ==
    /\ mainpc = "serving" /\ startLoaded
    /\ Len(startTargets) >= 3
    /\ startTargets[1].ID = startTargets[2].ID
    /\ startTargets[3].ID # startTargets[1].ID
    /\ Cardinality(Supervisors(startTargets[1].ID)) = 1
    /\ startTargets[3].ID \in DOMAIN managedTargets

(***************************************************************************)
(* POST /sync-targets                                                      *)
(***************************************************************************)
\* C11: a request leaves the validation either answered 400, and then the
\* catalog, the registry and the supervisors are as before and the request
\* does nothing more, or with RepoURL, RepoBranch, KubeConfigContent and
\* ManifestPath all non-empty.
C11_InvalidPostRejected ==
    [][\A p \in DOMAIN posts :
          /\ (posts[p].pc = "idle" /\ posts'[p].pc # "idle") =>
                IF posts'[p].status = 400
                THEN /\ catalog' = catalog /\ fileCorrupt' = fileCorrupt
                     /\ managedTargets' = managedTargets /\ sup' = sup
                     /\ posts'[p].pc = "done" /\ posts'[p].target = NoTarget
                ELSE /\ posts'[p].target.RepoURL # ""
                     /\ posts'[p].target.RepoBranch # ""
                     /\ posts'[p].target.KubeConfigContent # ""
                     /\ posts'[p].target.ManifestPath # ""
          /\ posts[p].status = 400 => posts'[p] = posts[p]]_vars

C11_Witness ==
    /\ \E p \in DOMAIN posts : posts[p].status = 400
    /\ \E p \in DOMAIN posts : posts[p].status = 201

\* The ids the handler generated.
Generated(id) == id > NumStoredIds

\* C12: every target that passed the handler's validation carries a positive
\* poll interval, in the request, in the catalog and in the registry (an
\* interval <= 0 is replaced by 60), and the ticker of every running
\* supervisor has a positive period (60 seconds for a target whose interval
\* is <= 0).
C12_PollIntervalPositive ==
    /\ \A body \in Bodies :
          (Validate(body) = 0 /\ body.PollIntervalSeconds <= 0) =>
              Normalize(body).PollIntervalSeconds = 60
    /\ \A p \in DOMAIN posts :
          posts[p].target # NoTarget => posts[p].target.PollIntervalSeconds > 0
    /\ \A i \in 1..Len(catalog) :
          Generated(catalog[i].ID) => catalog[i].PollIntervalSeconds > 0
    /\ \A n \in 1..Len(sup) :
          /\ Generated(sup[n].Target.ID) => sup[n].Target.PollIntervalSeconds > 0
          /\ sup[n].pc = "running" =>
                /\ sup[n].period > 0
                /\ sup[n].Target.PollIntervalSeconds <= 0 => sup[n].period = 60 * Second

C12_Witness ==
    /\ \E n \in 1..Len(sup) :
          sup[n].pc = "running" /\ sup[n].Target.PollIntervalSeconds <= 0
    /\ \E n \in 1..Len(sup) :
          sup[n].pc = "running" /\ Generated(sup[n].Target.ID)
    /\ \E i \in 1..Len(catalog) : Generated(catalog[i].ID)

InCatalog(file, target) == \E i \in 1..Len(file) : file[i] = target

\* C13: the handler reaches AddSyncTarget only when SaveSyncTarget has
\* written its target to the catalog file; a supervisor for a generated id is
\* started only by a handler whose save has returned successfully; and a
\* request answered 500 for its save has its target neither registered nor
\* supervised.
C13_SaveBeforeRegister ==
    [][/\ \A p \in DOMAIN posts :
             (posts'[p].pc = "saved" /\ posts[p].pc # "saved") =>
                 (posts[p].pc = "loaded" /\ InCatalog(catalog', posts[p].target))
       /\ \A n \in 1..Len(sup') :
             (n > Len(sup) /\ Generated(sup'[n].Target.ID)) =>
                 \E p \in DOMAIN posts :
                     posts[p].pc = "saved" /\ posts[p].target = sup'[n].Target
       /\ \A p \in DOMAIN posts :
             posts'[p].status = 500 =>
                 /\ posts'[p].target.ID \notin DOMAIN managedTargets'
                 /\ \A n \in 1..Len(sup') : sup'[n].Target.ID # posts'[p].target.ID]_vars

C13_Witness ==
    /\ \E p \in DOMAIN posts : posts[p].status = 500 /\ posts[p].target # NoTarget
    /\ \E p \in DOMAIN posts : posts[p].status = 201

(***************************************************************************)
(* The stop signal                                                         *)
(***************************************************************************)
\* C14: after the stop signal has fired the supervisor begins no tick, and
\* applies nothing but what was in flight when the signal fired.
C14_NothingAfterStop ==
    late.ticks = 0 /\ late.applies <= 1

(***************************************************************************)
(* The worktree directories                                                *)
(***************************************************************************)
\* A path is the sequence of its elements.  The text of each id: the catalog
\* file may hold any string as an ID, the handler's are uuid.NewString().
IDText(id) ==
    CASE id = 1 -> <<"a">>
      [] id = 2 -> <<".", "a">>
      [] id = 3 -> <<"b">>
      [] OTHER  -> <<ToString(id)>>

baseRepoPath == <<"tmp", "go-argo-lite-repos">>

\* filepath.Clean on the elements: "." and empty elements are dropped, ".."
\* drops the element before it.
RECURSIVE Clean(_, _)
Clean(elems, acc) ==
    IF elems = <<>> THEN acc
    ELSE IF Head(elems) \in {".", ""} THEN Clean(Tail(elems), acc)
    ELSE IF Head(elems) = ".."
         THEN Clean(Tail(elems), IF acc = <<>> THEN acc ELSE SubSeq(acc, 1, Len(acc) - 1))
    ELSE Clean(Tail(elems), Append(acc, Head(elems)))

\* filepath.Join(baseRepoPath, target.ID)
RepoPath(id) == Clean(baseRepoPath \o IDText(id), <<>>)

\* C15: no two live supervisors of distinct target ids work in the same
\* worktree directory.
C15_DistinctWorktrees ==
    \A n \in 1..Len(sup), m \in 1..Len(sup) :
        (Live(n) /\ Live(m) /\ sup[n].Target.ID # sup[m].Target.ID) =>
            RepoPath(sup[n].Target.ID) # RepoPath(sup[m].Target.ID)

(***************************************************************************)
(* ApplyManifestFile: the file that cannot be read, the empty documents    *)
(***************************************************************************)
\* C16: a call of ApplyManifestFile that cannot read the file returns the
\* single read error, attempts no document, makes no discovery call and no
\* patch call, and leaves the cluster as it was.
C16_ReadErrorAborts ==
    (napplied >= 1 /\ ~env.read) =>
        /\ ret.err = "read"
        /\ ret.errs = <<>> /\ ret.causes = <<>>
        /\ ret.attempted = <<>> /\ ret.discovered = <<>> /\ ret.patched = <<>>
        /\ cluster = prev.cluster

C16_Witness ==
    /\ napplied >= 1 /\ ~env.read
    /\ \E k \in 1..Len(Split(content)) : ReachesCluster(content, k)

TokensOf(c) == {c[x] : x \in 1..Len(c)}

\* C17: on a file that is read and whose partitions are all empty after
\* trimming, ApplyManifestFile returns success, attempts no document and
\* makes no cluster call.
C17_BlankFileSucceeds ==
    (napplied >= 1 /\ env.read /\ TokensOf(content) \subseteq {SEP, NL}) =>
        /\ ret.err = "none" /\ ret.errs = <<>>
        /\ ret.attempted = <<>> /\ ret.discovered = <<>> /\ ret.patched = <<>>
        /\ cluster = prev.cluster

C17_Witness ==
    /\ napplied >= 1 /\ env.read
    /\ TokensOf(content) = {SEP, NL}
    /\ ret.err = "none"

\* C18: on a file that is read and whose documents hold only comments,
\* ApplyManifestFile returns an error with one entry per document, in file
\* order, each citing the missing Kind, and makes no discovery call and no
\* patch call.
C18_CommentDocumentsFail ==
    (napplied >= 1 /\ env.read /\ "comment" \in TokensOf(content)
       /\ TokensOf(content) \subseteq {SEP, NL, "comment"}) =>
        /\ ret.err = "apply"
        /\ ret.errs = Ascending({k \in 1..Len(Split(content)) :
                                    "comment" \in TokensOf(Split(content)[k])})
        /\ Len(ret.causes) = Len(ret.errs)
        /\ \A x \in 1..Len(ret.causes) :
              ret.causes[x] = <<"JSON unmarshalling failed", "Object 'Kind' is missing">>
        /\ ret.discovered = <<>> /\ ret.patched = <<>>
        /\ cluster = prev.cluster

C18_Witness ==
    /\ napplied >= 1 /\ env.read
    /\ TokensOf(content) = {SEP, "comment"}
    /\ Len(ret.errs) >= 2

(***************************************************************************)
(* SpecCatalog: LoadSyncTargets and SaveSyncTarget, one call at a time     *)
(***************************************************************************)
MaxFile == 2   \* entries of the catalog file at the start

\* Only a decrypt failure counted as a failure of the load.
CorruptOnlyDecrypt(f) == f.kind = "undecryptable"

\* LoadSyncTargets returns an error: os.ReadFile fails otherwise than with
\* not-exist, or the non-empty content does not decrypt or is no JSON list.
Corrupt(f) == f.kind \in {"unreadable", "undecryptable", "notjson"}

\* The list LoadSyncTargets decodes: empty for a missing or an empty file.
Listed(f) == IF f.kind = "list" THEN f.targets ELSE <<>>

\* The targets SaveSyncTarget is called with: a new content for every id.
SaveTargets ==
    {SyncTarget(id, "url2", "main", "kubeconfig", 45, "k8s") : id \in 1..(NumStoredIds + 1)}

\* What os.WriteFile does: it writes the whole content ("ok"), fails to open
\* the file ("open"), or fails after truncating it, leaving it empty
\* ("truncated") or with a part of the content ("partial").
WriteOutcomes == {"ok", "open", "truncated", "partial"}

SaveSyncTarget(f, target, w) ==
    LET loaded == SaveLoadedList(LoadSyncTargets(Listed(f), Corrupt(f)))
        targets == Upsert(loaded.targets, target)
    IN  IF loaded.fail THEN [err |-> TRUE, store |-> f]
        ELSE [err |-> w # "ok",
              store |-> CASE w = "ok"        -> File("list", targets)
                          [] w = "open"      -> f
                          [] w = "truncated" -> File("empty", <<>>)
                          [] OTHER           -> File("undecryptable", <<>>)]

InitialStores ==
    {File(k, <<>>) : k \in {"missing", "empty", "unreadable", "undecryptable", "notjson"}}
        \cup {File("list", c) : c \in InitialCatalogs(MaxFile)}

InitCatalog ==
    /\ store \in InitialStores
    /\ lastOp = NoOp
    /\ SysIdle /\ PollIdle /\ ApplyIdle /\ FilesIdle /\ RouteIdle /\ MultiIdle

LoadSyncTargetsCall ==
    /\ LET r == LoadSyncTargets(Listed(store), Corrupt(store))
       IN  lastOp' = [op |-> "load", target |-> NoTarget, before |-> store,
                      err |-> r.err, targets |-> r.targets]
    /\ UNCHANGED store
    /\ UNCHANGED <<sysVars, pollVars, applyVars, fileVars, routeVars, multiVars>>

SaveSyncTargetCall(target, w) ==
    /\ LET r == SaveSyncTarget(store, target, w)
       IN  /\ store' = r.store
           /\ lastOp' = [op |-> "save", target |-> target, before |-> store,
                         err |-> r.err, targets |-> <<>>]
    /\ UNCHANGED <<sysVars, pollVars, applyVars, fileVars, routeVars, multiVars>>

NextCatalog ==
    \/ LoadSyncTargetsCall
    \/ \E target \in SaveTargets, w \in WriteOutcomes : SaveSyncTargetCall(target, w)

SpecCatalog == InitCatalog /\ [][NextCatalog]_vars

UniqueIds(targets) ==
    \A i \in 1..Len(targets), j \in 1..Len(targets) :
        targets[i].ID = targets[j].ID => i = j

\* C19: a SaveSyncTarget that runs alone on a catalog that loads and returns
\* no error replaces in place the first entry with the target's id, the
\* length and every other entry being as before, or appends the target when
\* no entry has its id; it keeps unique ids unique; and saving the target
\* again changes nothing.
C19_SaveReplacesOrAppends ==
    [][(lastOp'.op = "save" /\ ~lastOp'.err /\ ~Corrupt(store)) =>
          LET old == Listed(store)
              new == Listed(store')
              t == lastOp'.target
              same == {i \in 1..Len(old) : old[i].ID = t.ID}
          IN  /\ store'.kind = "list"
              /\ IF same # {}
                 THEN /\ Len(new) = Len(old)
                      /\ \E i \in same :
                            /\ \A j \in same : i <= j
                            /\ new[i] = t
                            /\ \A j \in 1..Len(old) : j # i => new[j] = old[j]
                 ELSE new = Append(old, t)
              /\ UniqueIds(old) => UniqueIds(new)
              /\ SaveSyncTarget(store', t, "ok").store = store']_vars

C19_Witness ==
    /\ lastOp.op = "save" /\ ~lastOp.err
    /\ lastOp.before.kind = "list" /\ Len(lastOp.before.targets) = 2
    /\ UniqueIds(lastOp.before.targets)
    /\ Len(store.targets) = 2
    /\ store.targets[2] = lastOp.target
    /\ store.targets[1] = lastOp.before.targets[1]

\* C20: LoadSyncTargets returns an empty list and no error on a missing or
\* an empty file, an error and no list on a non-empty file that does not
\* decrypt or does not decode, and leaves the file as it was.
C20_LoadSyncTargets ==
    lastOp.op = "load" =>
        /\ lastOp.before.kind \in {"missing", "empty"} =>
              (~lastOp.err /\ lastOp.targets = <<>>)
        /\ lastOp.before.kind \in {"undecryptable", "notjson"} =>
              (lastOp.err /\ lastOp.targets = <<>>)
        /\ lastOp.before.kind = "list" =>
              (~lastOp.err /\ lastOp.targets = lastOp.before.targets)
        /\ store = lastOp.before

C20_Witness ==
    /\ lastOp.op = "load" /\ lastOp.err
    /\ lastOp.before.kind = "notjson"

(***************************************************************************)
(* SpecRoute: the http.ServeMux of Server.routes, requests served in turn  *)
(***************************************************************************)
MaxRequests == 3   \* requests served

Methods == {"GET", "POST", "PUT", "DELETE"}

\* A request path, as the sequence of its segments: <<>> is "/".
SyncTargetsPath == <<"sync-targets">>
RequestPaths == {<<>>, SyncTargetsPath, <<"favicon.ico">>, <<"static", "style.css">>, <<"other">>}

\* The ServeMux of the toolchain the program is built with: the Dockerfile
\* builds with golang:1.21, whose ServeMux reads "POST /sync-targets" as a
\* pattern of the host "POST " that no request matches; from 1.22 on the
\* pattern names a method.
Muxes == {"go1.21", "go1.22"}

\* ServeMux.Handler on the three patterns "POST /sync-targets", "/" and
\* "/static/": the most specific pattern that matches; "/" matches every
\* path and every method, so no request is left without a match.
Route(mux, method, path) ==
    IF mux = "go1.22" /\ method = "POST" /\ path = SyncTargetsPath THEN "create"
    ELSE IF Len(path) >= 2 /\ path[1] = "static" THEN "static"
    ELSE "root"

\* The handler of "/": index.html for the path "/", http.NotFound otherwise.
RootStatus(path, exists) == IF path = <<>> /\ exists THEN 200 ELSE 404

\* http.FileServer under /static/.
StaticStatus(path, exists) == IF exists THEN 200 ELSE 404

\* handleCreateSyncTarget run from its entry to its answer, no other request
\* in between: the answer and the catalog, the registry and the goroutines
\* it leaves.
HandleCreate(method, body, cat, corrupt, mt, sp, n, writeOK) ==
    LET same(status, used) ==
            [status |-> status, catalog |-> cat, fileCorrupt |-> corrupt,
             managedTargets |-> mt, sup |-> sp, issued |-> n + used]
        target == [Normalize(body) EXCEPT !.ID = NewUUID(n)]
        loaded == SaveLoadedList(LoadSyncTargets(cat, corrupt))
        r == AddSyncTarget(mt, sp, target)
    IN  IF method # "POST" THEN same(405, 0)
        ELSE IF Validate(body) # 0 THEN same(Validate(body), 0)
        ELSE IF loaded.fail \/ ~writeOK THEN same(500, 1)
        ELSE [status |-> IF r.err THEN 500 ELSE 201,
              catalog |-> Upsert(loaded.targets, target), fileCorrupt |-> FALSE,
              managedTargets |-> r.managedTargets, sup |-> r.sup, issued |-> n + 1]

\* A process that serves, on a missing catalog file.
InitRoute ==
    /\ mainpc = "serving"
    /\ startTargets = <<>> /\ startIdx = 1 /\ startLoaded = TRUE
    /\ catalog = <<>> /\ fileCorrupt = FALSE
    /\ managedTargets = <<>> /\ sup = <<>>
    /\ posts = <<>> /\ issued = 0 /\ lastAdd = NoAdd
    /\ requests = 0
    /\ \E m \in Muxes : resp = [NoResp EXCEPT !.mux = m]
    /\ PollIdle /\ ApplyIdle /\ FilesIdle /\ CatIdle /\ MultiIdle

\* One request: routed by the mux, served by the handler.
Serve(method, path, body, ok) ==
    /\ mainpc = "serving"
    /\ requests < MaxRequests
    /\ requests' = requests + 1
    /\ LET h == Route(resp.mux, method, path)
           c == HandleCreate(method, body, catalog, fileCorrupt, managedTargets, sup,
                             issued, ok)
           answered(status) ==
               resp' = [mux |-> resp.mux, method |-> method, path |-> path, handler |-> h,
                        status |-> status, catalog |-> catalog,
                        managedTargets |-> managedTargets]
       IN  IF h = "create"
           THEN /\ answered(c.status)
                /\ catalog' = c.catalog
                /\ fileCorrupt' = c.fileCorrupt
                /\ managedTargets' = c.managedTargets
                /\ sup' = c.sup
                /\ issued' = c.issued
           ELSE /\ answered(IF h = "static" THEN StaticStatus(path, ok)
                            ELSE RootStatus(path, ok))
                /\ UNCHANGED <<catalog, fileCorrupt, managedTargets, sup, issued>>
    /\ UNCHANGED <<mainpc, startTargets, startIdx, startLoaded, posts, lastAdd>>
    /\ UNCHANGED <<pollVars, applyVars, fileVars, catVars, multiVars>>

NextRoute ==
    \E method \in Methods, path \in RequestPaths, body \in Bodies, ok \in BOOLEAN :
        Serve(method, path, body, ok)

SpecRoute == InitRoute /\ [][NextRoute]_vars

\* C21: a request to /sync-targets with a method other than POST is answered
\* 405, and leaves the catalog and the registry as they were.
C21_OtherVerbs405 ==
    (resp.path = SyncTargetsPath /\ resp.method \notin {"", "POST"}) =>
        /\ resp.status = 405
        /\ catalog = resp.catalog
        /\ managedTargets = resp.managedTargets

\* C22: when the manifest files of a recorded hash could not be listed, a
\* following tick that fetches, reads the same hash and can list the files
\* applies that commit's manifests.
C22_ListingRetried ==
    [][(unlisted # "" /\ remote = unlisted /\ Tick(TRUE, TRUE, TRUE)) =>
           (tick'.pass /\ pfiles' = FilesAt(unlisted))]_vars

\* C23: a poll that detects a new hash records it; no apply, whatever it
\* returns, changes the recorded hash; and a tick that reads the recorded
\* hash again enters no apply pass, also when every file of the last pass
\* failed.
C23_HashRecordedWhateverApplies ==
    /\ [](/\ (tick.seen # "" /\ tick.seen # tick.prev) => tick.recorded = tick.seen
          /\ (tick.prev # "" /\ tick.seen = tick.prev) =>
                (~tick.pass /\ tick.recorded = tick.prev))
    /\ [][(\E ok \in BOOLEAN : ApplyNext(ok)) =>
              (lastCommitHash' = lastCommitHash /\ unlisted' = unlisted)]_vars

\* A tick at the hash of a pass all of whose files failed applied nothing.
C23_Witness ==
    /\ ppc = "loop"
    /\ tick.prev # "" /\ tick.seen = tick.prev /\ ~tick.pass
    /\ applied.commit = tick.prev
    /\ applied.files > 0 /\ applied.failed = applied.files

\* A poll, the initial one or a tick's, made while no hash is recorded, that
\* fetches and reads the hash; listOK: GetManifestFiles returns no error.
FirstPoll(listOK) ==
    /\ lastCommitHash = ""
    /\ (InitialPoll(TRUE, TRUE, listOK) \/ Tick(TRUE, TRUE, listOK))

MaxAdds == 2   \* goroutines started for the id

LifeId == 1

\* The targets AddSyncTarget may be called with: from a POST they passed the
\* handler's validation, from the catalog file they passed none.
LifeTargets ==
    { SyncTarget(LifeId, "url", "main", "kubeconfig", 30, "k8s"),
      SyncTarget(LifeId, "url", "main", "garbage", 30, "k8s"),
      SyncTarget(LifeId, "url", "main", "", 30, "k8s"),
      SyncTarget(LifeId, "url", "main", "kubeconfig", 30, "") }

\* NewKubeHandler("", content): the content when there is one, else the
\* in-cluster configuration; an error when the one used is not to be had.
NewKubeHandler(kubeconfigContent, inCluster) ==
    IF kubeconfigContent # "" THEN [err |-> kubeconfigContent # "kubeconfig"]
    ELSE [err |-> ~inCluster]

\* A NewGitPoller that accepts an empty manifest path.
NewGitPollerAnyPath(repoURL, repoBranch, localPath, manifestPathInRepo) ==
    [err |-> repoURL = "" \/ repoBranch = "" \/ localPath = <<>>]

\* NewGitPoller: every argument must be non-empty.
NewGitPoller(repoURL, repoBranch, localPath, manifestPathInRepo) ==
    IF repoURL = "" \/ repoBranch = "" \/ localPath = <<>> THEN [err |-> TRUE]
    ELSE IF manifestPathInRepo = "" THEN [err |-> TRUE]
    ELSE [err |-> FALSE]

\* What InitializeRepo does: it clones or opens and checks the branch out
\* ("ok"), fails to clone ("clone"), or fails once the directory is there, in
\* PlainOpen or in the checkout ("checkout").
RepoOutcomes == {"ok", "clone", "checkout"}

\* The target of the goroutine started last.
Current == sup[Len(sup)].Target

InitLife ==
    /\ mainpc = "serving"
    /\ startTargets = <<>> /\ startIdx = 1 /\ startLoaded = TRUE
    /\ catalog = <<>> /\ fileCorrupt = FALSE
    /\ managedTargets = <<>> /\ sup = <<>>
    /\ posts = <<>> /\ issued = 0 /\ lastAdd = NoAdd
    /\ ppc = "off" /\ lastCommitHash = "" /\ remote \in Commits /\ head = ""
    /\ pfiles = <<>> /\ pidx = 0 /\ ticks = 0 /\ pushes = 0
    /\ detections = 0 /\ tickPasses = 0 /\ tick = NoTick
    /\ stop = "no" /\ late = NoLate
    /\ worktree = "absent" /\ unlisted = "" /\ applied = NoPass
    /\ ApplyIdle /\ FilesIdle /\ CatIdle /\ RouteIdle /\ MultiIdle

\* A StopChan that is closed from the start.
ClosedStopChan == "fired"
\* StopChan: make(chan struct{}), an open channel nothing has been sent on.
NewStopChan == "no"
\* AddSyncTarget called by Worker.Start or by the handler: on success a new
\* ManagedSyncTarget with a new StopChan is registered and its goroutine is
\* started.
LifeAdd(target) ==
    /\ Len(sup) < MaxAdds
    /\ LET r == AddSyncTarget(managedTargets, sup, target)
       IN  /\ managedTargets' = r.managedTargets
           /\ sup' = r.sup
           /\ lastAdd' = [ID |-> target.ID, err |-> r.err]
           /\ IF r.err
              THEN UNCHANGED <<ppc, lastCommitHash, pfiles, pidx, tick, stop, unlisted, applied>>
              ELSE /\ ppc' = "starting"
                   /\ lastCommitHash' = ""
                   /\ pfiles' = <<>> /\ pidx' = 0 /\ tick' = NoTick
                   /\ stop' = NewStopChan
                   /\ unlisted' = "" /\ applied' = NoPass
    /\ UNCHANGED <<mainpc, startTargets, startIdx, startLoaded, catalog, fileCorrupt,
                   posts, issued>>
    /\ UNCHANGED <<remote, head, ticks, pushes, detections, tickPasses, late, worktree>>
    /\ UNCHANGED <<applyVars, fileVars, catVars, routeVars, multiVars>>

\* The goroutine begins: it reads its target and computes repoPath.
SupBegin ==
    /\ ppc = "starting"
    /\ ppc' = "kube"
    /\ UNCHANGED <<lastCommitHash, remote, head, pfiles, pidx, ticks, pushes, detections,
                   tickPasses, tick, stop, late, worktree, unlisted, applied>>
    /\ UNCHANGED <<sysVars, applyVars, fileVars, catVars, routeVars, multiVars>>

\* A step of the initialization: on an error the goroutine deletes its id
\* from the registry under w.mu and returns; else it goes on to the stage next.
InitStep(failed, next, dir) ==
    /\ IF failed
       THEN /\ managedTargets' = Deregister(managedTargets, Current.ID)
            /\ sup' = GoroutineReturned(sup)
            /\ ppc' = "terminated"
       ELSE /\ ppc' = next
            /\ sup' = IF next = "initialPoll"
                      THEN [sup EXCEPT ![Len(sup)].pc = "running",
                                       ![Len(sup)].period =
                                           TickerPeriod(Current.PollIntervalSeconds)]
                      ELSE sup
            /\ UNCHANGED managedTargets
    /\ worktree' = dir
    /\ head' = IF next = "initialPoll" /\ ~failed THEN remote ELSE head
    /\ UNCHANGED <<mainpc, startTargets, startIdx, startLoaded, catalog, fileCorrupt,
                   posts, issued, lastAdd>>
    /\ UNCHANGED <<lastCommitHash, remote, pfiles, pidx, ticks, pushes, detections,
                   tickPasses, tick, stop, late, unlisted, applied>>
    /\ UNCHANGED <<applyVars, fileVars, catVars, routeVars, multiVars>>

SupKube(inCluster) ==
    /\ ppc = "kube"
    /\ InitStep(NewKubeHandler(Current.KubeConfigContent, inCluster).err, "poller", worktree)

SupPoller ==
    /\ ppc = "poller"
    /\ InitStep(NewGitPoller(Current.RepoURL, Current.RepoBranch, RepoPath(Current.ID),
                             Current.ManifestPath).err, "repo", worktree)

SupRepo(outcome) ==
    /\ ppc = "repo"
    /\ InitStep(outcome # "ok", "initialPoll",
                IF outcome = "clone" THEN worktree ELSE "present")

\* The steps of the goroutine.
SupNext ==
    \/ SupBegin
    \/ \E inCluster \in BOOLEAN : SupKube(inCluster)
    \/ SupPoller
    \/ \E outcome \in RepoOutcomes : SupRepo(outcome)
    \/ \E f \in BOOLEAN, h \in BOOLEAN, l \in BOOLEAN : InitialPoll(f, h, l)
    \/ \E ok \in BOOLEAN : ApplyNext(ok)
    \/ \E f \in BOOLEAN, h \in BOOLEAN, l \in BOOLEAN : Tick(f, h, l)
    \/ StopObserve
    \/ \E removed \in BOOLEAN : StopCleanup(removed)

NextLife ==
    \/ \E target \in LifeTargets : LifeAdd(target)
    \/ SupNext
    \/ StopFire

SpecLife == InitLife /\ [][NextLife]_vars

\* The goroutine has returned and its id is out of the registry.
Ended == ppc = "terminated" /\ LifeId \notin DOMAIN managedTargets

InitStages == {"kube", "poller", "repo"}

\* C25: when NewKubeHandler, NewGitPoller (an empty repo URL, branch or
\* manifest path) or InitializeRepo fails, the supervisor deletes its id from
\* the registry and returns, and it has made no poll and no apply.
C25_InitFailureEndsSupervisor ==
    /\ [][/\ (ppc = "kube" /\ Current.KubeConfigContent \notin {"", "kubeconfig"}
                 /\ ppc' # ppc) => Ended'
          /\ (ppc = "poller" /\ ppc' # ppc
                 /\ (Current.RepoURL = "" \/ Current.RepoBranch = ""
                        \/ Current.ManifestPath = "")) => Ended'
          /\ (\E o \in RepoOutcomes \ {"ok"} : SupRepo(o)) => Ended'
          /\ (ppc \in InitStages /\ ppc' = "terminated") =>
                 (Ended' /\ sup'[Len(sup)].pc = "terminated")]_vars
    /\ []((ppc \in InitStages \/ (ppc = "terminated" /\ stop # "observed")) =>
             (lastCommitHash = "" /\ applied = NoPass /\ pfiles = <<>> /\ tick = NoTick))

\* A supervisor of a target without manifest path has returned, deregistered.
C25_Witness ==
    /\ Len(sup) >= 1 /\ Current.ManifestPath = ""
    /\ Ended /\ stop # "observed"

\* The goroutine, once started, takes its steps: none of its calls blocks for
\* ever; and the select of its loop, which draws among its ready cases at
\* random, does not leave a ready stop case undrawn for ever.
LifeFairness == WF_vars(SupNext) /\ SF_vars(StopObserve)

SpecLifeFair == SpecLife /\ LifeFairness

Polling == {"initialPoll", "applyInitial", "applyTick", "loop"}

\* C26: after a successful initialization no error of the initial fetch,
\* hash read, listing or of an apply ends the supervisor: from its initial
\* poll it reaches the loop, and while it polls and applies its id stays in
\* the registry, bound to it.
C26_ErrorsDoNotTerminate ==
    /\ (ppc = "initialPoll") ~> (ppc = "loop")
    /\ [][(ppc \in {"initialPoll", "applyInitial", "applyTick"}) =>
              (ppc' \in {ppc, "applyInitial", "applyTick", "loop"})]_vars
    /\ [](ppc \in Polling =>
             (LifeId \in DOMAIN managedTargets /\ managedTargets[LifeId] = Len(sup)))

\* The supervisor is at its loop, before any tick, after an initial pass all
\* of whose files failed.
C26_Witness ==
    /\ ppc = "loop" /\ ticks = 0
    /\ applied.files > 0 /\ applied.failed = applied.files
    /\ LifeId \in DOMAIN managedTargets

\* C27: when a supervisor has returned after observing the stop signal, the
\* registry holds no entry for its id.
C27_StoppedSupervisorDeregistered ==
    (ppc = "terminated" /\ stop = "observed") => LifeId \notin DOMAIN managedTargets

\* C28 (as stated): a supervisor whose stop signal has fired eventually
\* removes its worktree directory and returns.
C28_StopRemovesWorktree ==
    (stop = "fired") ~> (ppc = "terminated" /\ worktree = "absent")

\* C28 (amended): it eventually returns; when it returns from the stop case
\* of its loop it has called os.RemoveAll on the directory, which is then
\* gone unless the removal failed.
C28_StopEndsSupervisor ==
    (stop = "fired") ~>
        (ppc = "terminated" /\ (stop = "observed" => worktree \in {"absent", "leftover"}))

\* A supervisor has returned from the stop case, its directory removed.
C28_Witness ==
    ppc = "terminated" /\ stop = "observed" /\ worktree = "absent"

\* The state of the supervisor's state machine at each position of the
\* goroutine; the startup pass polls in Running and applies in Applying.
LifeState(pc) ==
    CASE pc = "starting"                         -> "Starting"
      [] pc \in InitStages                       -> "Initializing"
      [] pc \in {"initialPoll", "loop"}          -> "Running"
      [] pc \in {"applyInitial", "applyTick"}    -> "Applying"
      [] pc = "stopping"                         -> "Stopping"
      [] pc = "terminated"                       -> "Terminated"
      [] OTHER                                   -> "None"

Transitions ==
    { <<"Starting", "Initializing">>, <<"Initializing", "Running">>,
      <<"Running", "Applying">>, <<"Applying", "Running">>,
      <<"Running", "Stopping">>, <<"Stopping", "Terminated">>,
      <<"Initializing", "Terminated">> }

\* C29: a supervisor begins in Starting and changes state only along
\* Starting -> Initializing -> Running <-> Applying, Running -> Stopping ->
\* Terminated and Initializing -> Terminated; a supervisor that is Terminated
\* stays so.
C29_StateMachine ==
    [][/\ IF Len(sup') # Len(sup)
          THEN LifeState(ppc) \in {"None", "Terminated"} /\ LifeState(ppc') = "Starting"
          ELSE \/ LifeState(ppc') = LifeState(ppc)
               \/ <<LifeState(ppc), LifeState(ppc')>> \in Transitions
       /\ \A n \in 1..Len(sup) :
              sup[n].pc = "terminated" => sup'[n].pc = "terminated"]_vars

\* A supervisor that applied on a tick has drawn the stop case.
C29_Witness ==
    ppc = "stopping" /\ tick.pass /\ applied.files > 0

\* The handlers that have read the catalog file in SaveSyncTarget and have
\* not written it yet.
Saving == {p \in DOMAIN posts : posts[p].pc = "loaded"}

\* C30: the load-modify-write of SaveSyncTarget for one POST is over before
\* the load of SaveSyncTarget for another POST begins.
C30_SavesDoNotOverlap == Cardinality(Saving) <= 1

\* C31: a POST whose SaveSyncTarget finds a catalog file that does not
\* decrypt or decode is answered 500 there and then: it writes no file and
\* registers no target.
C31_CorruptCatalogFailsSave ==
    [][\A p \in DOMAIN posts :
          (fileCorrupt /\ posts[p].pc = "idle" /\ posts'[p].pc # "idle"
              /\ posts'[p].status # 400) =>
                 (posts'[p].pc = "done" /\ posts'[p].status = 500)]_vars

\* C32: the process does not come to serve requests when the catalog could
\* not be loaded at startup.
C32_StartupLoadFailureIsFatal ==
    mainpc = "serving" => startLoaded

Applying == ppc \in {"applyInitial", "applyTick"}

\* C33: a tick's poll begins only when the pass of the tick before is over;
\* the files of a pass are those listed by its own poll, at the commit the
\* worktree was reset to, and they are applied one by one in the order of
\* the list.
C33_StepsDoNotOverlap ==
    /\ [][/\ ticks' # ticks => (ppc = "loop" /\ ticks' = ticks + 1)
          /\ (Applying /\ ppc' # "stopping" /\ (pidx' # pidx \/ ppc' # ppc)) =>
                 (pidx' = pidx + 1 /\ pfiles' = pfiles /\ head' = head
                     /\ (ppc' = "loop") = (pidx = Len(pfiles)))]_vars
    /\ [](Applying =>
             /\ pidx \in 1..Len(pfiles)
             /\ pfiles = FilesAt(head)
             /\ head = lastCommitHash /\ applied.commit = head)

\* The second file of the pass of a later tick is about to be applied.
C33_Witness ==
    ppc = "applyTick" /\ Len(pfiles) = 2 /\ pidx = 2 /\ ticks >= 2

(***************************************************************************)
(* SpecMulti: the supervisors of several targets, the callers of           *)
(* AddSyncTarget and the registry lock Worker.mu                           *)
(***************************************************************************)
NumCallers == 2   \* goroutines that call AddSyncTarget once each

\* The targets AddSyncTarget is called with: the ids "a", "./a" and "b" of a
\* catalog file, tracking the branches main, dev and main.
MultiTarget(id) ==
    SyncTarget(id, "url", IF id = 2 THEN "dev" ELSE "main", "kubeconfig", 30, "k8s")
MultiIds == 1..3
MultiDirs == {RepoPath(id) : id \in MultiIds}

IdleCaller == [pc |-> "idle", target |-> NoTarget]
ByCaller(c) == [kind |-> "caller", n |-> c]
BySup(n) == [kind |-> "sup", n |-> n]

InitMulti ==
    /\ mainpc = "serving"
    /\ startTargets = <<>> /\ startIdx = 1 /\ startLoaded = TRUE
    /\ catalog = <<>> /\ fileCorrupt = FALSE
    /\ managedTargets = <<>> /\ sup = <<>>
    /\ posts = <<>> /\ issued = 0 /\ lastAdd = NoAdd
    /\ mu = Unlocked
    /\ callers = [c \in 1..NumCallers |-> IdleCaller]
    /\ hashOf = <<>>
    /\ dirs = [d \in MultiDirs |-> "absent"]
    /\ PollIdle /\ ApplyIdle /\ FilesIdle /\ CatIdle /\ RouteIdle

SysFrame ==
    UNCHANGED <<mainpc, startTargets, startIdx, startLoaded, catalog, fileCorrupt,
                posts, issued>>
OthersFrame == UNCHANGED <<pollVars, applyVars, fileVars, catVars, routeVars>>

\* A goroutine calls AddSyncTarget: it is at w.mu.Lock().
CallAdd(c, id) ==
    /\ callers[c].pc = "idle"
    /\ callers' = [callers EXCEPT ![c] = [pc |-> "calling", target |-> MultiTarget(id)]]
    /\ UNCHANGED <<managedTargets, sup, lastAdd, mu, hashOf, dirs>>
    /\ SysFrame /\ OthersFrame

\* w.mu.Lock() returns.
AddLock(c) ==
    /\ callers[c].pc = "calling"
    /\ mu = Unlocked
    /\ mu' = ByCaller(c)
    /\ callers' = [callers EXCEPT ![c].pc = "locked"]
    /\ UNCHANGED <<managedTargets, sup, lastAdd, hashOf, dirs>>
    /\ SysFrame /\ OthersFrame

\* The body of AddSyncTarget and its deferred w.mu.Unlock().
AddBody(c) ==
    /\ callers[c].pc = "locked"
    /\ LET r == AddSyncTarget(managedTargets, sup, callers[c].target)
       IN  /\ managedTargets' = r.managedTargets
           /\ sup' = r.sup
           /\ hashOf' = IF r.err THEN hashOf ELSE Append(hashOf, "")
           /\ lastAdd' = [ID |-> callers[c].target.ID, err |-> r.err]
    /\ mu' = Unlocked
    /\ callers' = [callers EXCEPT ![c].pc = "done"]
    /\ UNCHANGED dirs
    /\ SysFrame /\ OthersFrame

Dir(n) == RepoPath(sup[n].Target.ID)

\* An initialization that takes w.mu before its I/O and returns with it held.
SupInitLocked(n, ok) ==
    /\ sup[n].pc = "init"
    /\ mu = Unlocked
    /\ mu' = IF ok THEN mu ELSE BySup(n)
    /\ sup' = [sup EXCEPT ![n].pc = IF ok THEN "running" ELSE "failed"]
    /\ dirs' = IF ok THEN [dirs EXCEPT ![Dir(n)] = sup[n].Target.RepoBranch] ELSE dirs
    /\ UNCHANGED <<managedTargets, lastAdd, callers, hashOf>>
    /\ SysFrame /\ OthersFrame

\* manageSyncTarget's initialization, made without w.mu: NewKubeHandler,
\* NewGitPoller and InitializeRepo, which clones into repoPath or opens what
\* is there, and checks the branch out.
SupInit(n, ok) ==
    /\ sup[n].pc = "init"
    /\ sup' = [sup EXCEPT ![n].pc = IF ok THEN "running" ELSE "failed"]
    /\ dirs' = IF ok THEN [dirs EXCEPT ![Dir(n)] = sup[n].Target.RepoBranch] ELSE dirs
    /\ UNCHANGED <<managedTargets, lastAdd, mu, callers, hashOf>>
    /\ SysFrame /\ OthersFrame

\* After a failed initialization: w.mu.Lock() returns.
SupLock(n) ==
    /\ sup[n].pc = "failed"
    /\ mu = Unlocked
    /\ mu' = BySup(n)
    /\ sup' = [sup EXCEPT ![n].pc = "deleting"]
    /\ UNCHANGED <<managedTargets, lastAdd, callers, hashOf, dirs>>
    /\ SysFrame /\ OthersFrame

\* delete(w.managedTargets, target.ID), w.mu.Unlock() and return.
SupDelete(n) ==
    /\ sup[n].pc = "deleting"
    /\ managedTargets' = Deregister(managedTargets, sup[n].Target.ID)
    /\ mu' = Unlocked
    /\ sup' = [sup EXCEPT ![n].pc = "terminated"]
    /\ UNCHANGED <<lastAdd, callers, hashOf, dirs>>
    /\ SysFrame /\ OthersFrame

\* A poll that reads the hash c: FetchLatest resets the worktree in repoPath
\* to the tracked branch, Poll records the hash, the files are applied.
SupPoll(n, c) ==
    /\ sup[n].pc = "running"
    /\ hashOf[n] # c
    /\ hashOf' = [hashOf EXCEPT ![n] = c]
    /\ dirs' = [dirs EXCEPT ![Dir(n)] = sup[n].Target.RepoBranch]
    /\ UNCHANGED <<managedTargets, sup, lastAdd, mu, callers>>
    /\ SysFrame /\ OthersFrame

\* The stop case: os.RemoveAll(repoPath) and return.
SupStop(n, removed) ==
    /\ sup[n].pc = "running"
    /\ sup' = [sup EXCEPT ![n].pc = "terminated"]
    /\ dirs' = IF removed THEN [dirs EXCEPT ![Dir(n)] = "absent"] ELSE dirs
    /\ UNCHANGED <<managedTargets, lastAdd, mu, callers, hashOf>>
    /\ SysFrame /\ OthersFrame

\* The I/O of supervisor n, and all its steps.
SupIO(n) ==
    \/ \E ok \in BOOLEAN : SupInit(n, ok)
    \/ \E c \in {"c1", "c2"} : SupPoll(n, c)
    \/ \E removed \in BOOLEAN : SupStop(n, removed)
SupStepOf(n) == SupIO(n) \/ SupLock(n) \/ SupDelete(n)

NextMulti ==
    \/ \E c \in DOMAIN callers, id \in MultiIds : CallAdd(c, id)
    \/ \E c \in DOMAIN callers : AddLock(c)
    \/ \E c \in DOMAIN callers : AddBody(c)
    \/ \E n \in 1..Len(sup), ok \in BOOLEAN : SupInit(n, ok)
    \/ \E n \in 1..Len(sup) : SupLock(n)
    \/ \E n \in 1..Len(sup) : SupDelete(n)
    \/ \E n \in 1..Len(sup), c \in {"c1", "c2"} : SupPoll(n, c)
    \/ \E n \in 1..Len(sup), removed \in BOOLEAN : SupStop(n, removed)

SpecMulti == InitMulti /\ [][NextMulti]_vars

\* C34: a supervisor holds w.mu only to delete its entry, a caller only in
\* the body of AddSyncTarget; whoever holds it can go on and release it; and
\* the I/O of a supervisor neither waits for the lock nor touches it.
C34_NoLockDuringIO ==
    /\ [](/\ \A n \in 1..Len(sup) :
                /\ mu = BySup(n) <=> sup[n].pc = "deleting"
                /\ sup[n].pc = "deleting" => ENABLED SupDelete(n)
                /\ sup[n].pc \in {"init", "running"} => ENABLED SupIO(n)
          /\ \A c \in DOMAIN callers :
                /\ mu = ByCaller(c) <=> callers[c].pc = "locked"
                /\ callers[c].pc = "locked" => ENABLED AddBody(c)
          /\ (mu = Unlocked /\ \E c \in DOMAIN callers : callers[c].pc = "calling")
                => ENABLED (\E c \in DOMAIN callers : AddLock(c)))
    /\ [][\A n \in 1..Len(sup) : SupIO(n) => mu' = mu]_vars

\* A caller waits at Lock() while a supervisor holds w.mu to delete its entry.
C34_Witness ==
    /\ mu.kind = "sup"
    /\ \E c \in DOMAIN callers : callers[c].pc = "calling"

Entry(mt, id) == IF id \in DOMAIN mt THEN mt[id] ELSE 0

\* C35: a step of one target's supervisor leaves every other target's
\* supervisor state, recorded hash, registry entry and worktree directory
\* unchanged.
C35_StepsTouchOwnTargetOnly ==
    [][\A n \in 1..Len(sup), m \in 1..Len(sup) :
          (SupStepOf(n) /\ sup[m].Target.ID # sup[n].Target.ID) =>
              /\ sup'[m] = sup[m]
              /\ hashOf'[m] = hashOf[m]
              /\ Entry(managedTargets', sup[m].Target.ID)
                    = Entry(managedTargets, sup[m].Target.ID)
              /\ dirs'[Dir(m)] = dirs[Dir(m)]]_vars

(***************************************************************************)
(* ApplyManifestFile: where a file is split, the namespace of a patch      *)
(***************************************************************************)
\* The separator at position i is a line of its own.
OwnLine(c, i) ==
    /\ c[i] = SEP
    /\ (i = 1 \/ c[i - 1] = NL)
    /\ (i = Len(c) \/ c[i + 1] = NL)

\* The position of the n-th separator from position i on: where part n + 1
\* of strings.Split begins.
RECURSIVE NthSep(_, _, _)
NthSep(c, n, i) ==
    IF c[i] = SEP THEN (IF n = 1 THEN i ELSE NthSep(c, n - 1, i + 1))
    ELSE NthSep(c, n, i + 1)

\* C36: every document ApplyManifestFile takes from a file begins at the
\* start of the file or after a line that is exactly "---".
C36_SplitAtSeparatorLinesOnly ==
    (napplied > 0 /\ ret.err # "read") =>
        \A x \in 1..Len(ret.attempted) :
            ret.attempted[x] > 1 => OwnLine(content, NthSep(content, ret.attempted[x] - 1, 1))

\* SpecNamespace: ApplyManifestFile on files of ConfigMaps and Namespaces
\* that declare a namespace or none.
NamespaceTexts == {"cmA", "cmP", "nsN", "nsNd"}
NamespaceContents(n) ==
    {c \in SeqsUpTo(NamespaceTexts \cup {SEP}, n) : WellFormed(c)}

InitNamespace ==
    /\ content \in NamespaceContents(MaxLen)
    /\ cluster \in InitialClusters
    /\ napplied = 0 /\ ret = NoRet /\ env = NoEnv
    /\ prev = [cluster |-> <<>>, ret |-> NoRet]
    /\ SysIdle /\ PollIdle /\ FilesIdle /\ CatIdle /\ RouteIdle /\ MultiIdle

SpecNamespace == InitNamespace /\ [][NextApply]_vars

\* The document ApplyManifestFile takes from part k of the content.
DocAt(c, k) == YAMLToJSON(TrimSpace(Split(c)[k])[1]).json

\* Where the claim puts the patch of an object.
C37_Key(o) ==
    LET res == findAPIResource(o.apiVersion, o.kind, TRUE).res
    IN  <<res.Name,
          CASE ~res.Namespaced  -> ""
            [] o.namespace # "" -> o.namespace
            [] OTHER            -> "default",
          o.name>>

\* C37: every patch of a call is issued in the namespace the object declares,
\* in default when a namespaced kind declares none, and without a namespace
\* for a cluster-scoped kind: the patched documents' objects are in the
\* cluster under those keys, and the call creates no object elsewhere.
C37_PatchNamespace ==
    napplied > 0 =>
        LET keys == {C37_Key(DocAt(content, ret.patched[x])) : x \in 1..Len(ret.patched)}
        IN  /\ keys \subseteq DOMAIN cluster
            /\ (DOMAIN cluster) \ (DOMAIN prev.cluster) \subseteq keys

\* A cluster-scoped object that declares a namespace and a ConfigMap that
\* declares one have been patched in one call.
C37_Witness ==
    /\ napplied > 0 /\ Len(ret.patched) = 2
    /\ <<"namespaces", "", "n">> \in DOMAIN cluster
    /\ cluster[<<"namespaces", "", "n">>] = <<"y">>
    /\ <<"configmaps", "prod", "a">> \in DOMAIN cluster

(***************************************************************************)
(* The poll whose fetch or hash read fails                                 *)
(***************************************************************************)
\* The initial poll or a tick's poll, with FetchLatest failing.
FetchFailed ==
    \E hashOK \in BOOLEAN, listOK \in BOOLEAN :
        InitialPoll(FALSE, hashOK, listOK) \/ Tick(FALSE, hashOK, listOK)
\* The same with GetCurrentCommitHash failing after a fetch.
HashReadFailed ==
    \E listOK \in BOOLEAN : InitialPoll(TRUE, FALSE, listOK) \/ Tick(TRUE, FALSE, listOK)

\* C38 as stated: a poll whose fetch or hash read fails changes nothing of
\* the target: recorded hash, worktree, listing and applying are as before,
\* and the supervisor is in its loop.
C38_FailedPollChangesNothing ==
    [][(FetchFailed \/ HashReadFailed) =>
          /\ UNCHANGED <<lastCommitHash, head, worktree, unlisted, applied>>
          /\ pfiles' = <<>> /\ ppc' = "loop"]_vars

\* C38 amended: such a poll leaves the recorded hash as it was, lists and
\* applies nothing and leaves the supervisor in its loop, and a poll that
\* then succeeds with no hash recorded is a first observation.  The worktree
\* is left out: a fetch that succeeded has reset it before the hash read
\* failed.
C38_FailedPollKeepsHash ==
    /\ [][(FetchFailed \/ HashReadFailed) =>
             /\ UNCHANGED <<lastCommitHash, worktree, unlisted, applied>>
             /\ pfiles' = <<>> /\ ppc' = "loop"]_vars
    /\ []((tick.prev = "" /\ tick.seen # "") =>
             (tick.listed /\ tick.recorded = tick.seen))

\* A tick's poll has failed with no hash recorded, after a failed initial
\* poll, while the remote has moved on.
C38_Witness ==
    /\ ppc = "loop" /\ ticks >= 1
    /\ tick.prev = "" /\ tick.seen = "" /\ lastCommitHash = ""
    /\ remote # head

(***************************************************************************)
(* The POST whose supervisor fails to initialize                           *)
(***************************************************************************)
\* C39: the handler answers 201 while the supervisor it started is still
\* before its initialization; the failure of that initialization leaves the
\* catalog file as it is and takes the id out of the registry; and the id of
\* a POSTed target whose supervisor has ended is never registered again.
C39_FailedInitKeepsRecord ==
    /\ [][\A p \in DOMAIN posts :
             (posts[p].pc = "saved" /\ posts'[p].status = 201) =>
                 /\ Len(sup') = Len(sup) + 1
                 /\ sup'[Len(sup')].pc = "init"
                 /\ sup'[Len(sup')].Target = posts[p].target
                 /\ Entry(managedTargets', posts[p].target.ID) = Len(sup')]_vars
    /\ [][\A n \in 1..Len(sup) :
             (sup[n].pc = "init" /\ sup'[n].pc = "terminated") =>
                 /\ catalog' = catalog /\ fileCorrupt' = fileCorrupt
                 /\ sup[n].Target.ID \notin DOMAIN managedTargets']_vars
    /\ [](\A n \in 1..Len(sup) :
             (Generated(sup[n].Target.ID) /\ sup[n].pc = "terminated") =>
                 sup[n].Target.ID \notin DOMAIN managedTargets)

\* A POST was answered 201, its supervisor has ended, its record is in the
\* catalog and its id is not in the registry, and a later POST has been
\* answered 201 too.
C39_Witness ==
    \E p \in DOMAIN posts, q \in DOMAIN posts, n \in 1..Len(sup) :
        /\ p # q /\ posts[p].status = 201 /\ posts[q].status = 201
        /\ sup[n].Target = posts[p].target /\ sup[n].pc = "terminated"
        /\ n < Len(sup)
        /\ InCatalog(catalog, posts[p].target)
        /\ posts[p].target.ID \notin DOMAIN managedTargets

(***************************************************************************)
(* SpecRun: the running process by itself.  Its steps are those of         *)
(* SpecLife without StopFire, which is no statement of the program: the    *)
(* only uses of StopChan are its creation in AddSyncTarget and the receive *)
(* in the select of manageSyncTarget.                                      *)
(***************************************************************************)
\* The stop case of the select: the receive from StopChan, then the cleanup
\* and the return.
StopCase == StopObserve \/ \E removed \in BOOLEAN : StopCleanup(removed)

\* The select of manageSyncTarget's loop: the ticker case or the stop case.
Select(fetchOK, hashOK, listOK) ==
    /\ ppc \in {"loop", "stopping"}
    /\ (Tick(fetchOK, hashOK, listOK) \/ StopCase)

NextRun ==
    \/ \E target \in LifeTargets : LifeAdd(target)
    \/ SupBegin
    \/ \E inCluster \in BOOLEAN : SupKube(inCluster)
    \/ SupPoller
    \/ \E outcome \in RepoOutcomes : SupRepo(outcome)
    \/ \E f \in BOOLEAN, h \in BOOLEAN, l \in BOOLEAN : InitialPoll(f, h, l)
    \/ \E ok \in BOOLEAN : ApplyNext(ok)
    \/ \E f \in BOOLEAN, h \in BOOLEAN, l \in BOOLEAN : Select(f, h, l)
    \/ \E c \in Commits : RemotePush(c)

SpecRun == InitLife /\ [][NextRun]_vars

\* C40: no step of the program fires a stop signal; a supervisor that has
\* completed its initialization stays in its poll, apply and loop states with
\* its worktree directory in place, and keeps its registry entry.
C40_NothingStopsASupervisor ==
    /\ [](stop = "no")
    /\ [](\A n \in 1..Len(sup) :
             sup[n].pc = "running" =>
                 /\ n = Len(sup)
                 /\ ppc \in {"initialPoll", "applyInitial", "applyTick", "loop"}
                 /\ worktree = "present"
                 /\ Entry(managedTargets, sup[n].Target.ID) = n)
    /\ [][\A n \in 1..Len(sup) : sup[n].pc = "running" => sup'[n].pc = "running"]_vars

\* A supervisor has served all its ticks and applied files, and a later
\* AddSyncTarget of its id has been refused.
C40_Witness ==
    /\ sup # <<>> /\ sup[Len(sup)].pc = "running"
    /\ ppc = "loop" /\ ticks = MaxTicks /\ applied.files > 0
    /\ lastAdd.err

====
